---- MODULE Spec2Model ----
(***************************************************************************)
(* Better Gemini: the injection orchestrator of content/injector.js (the   *)
(* URL-driven run, the message listener and the message-driven injection)  *)
(* and the URL prompt carrier of background.js.                            *)
(*                                                                         *)
(* Strings are sequences of Unicode code points (scalar values).  The URL  *)
(* conversions (encodeURIComponent, decodeURIComponent, URLSearchParams,   *)
(* the URL parser) are modelled by what the platform does with the bytes.  *)
(***************************************************************************)
EXTENDS Integers, Sequences, FiniteSets, TLC

(***************************************************************************)
(* Bounds of the model                                                     *)
(***************************************************************************)
\* longest prompt string drawn for the URL-carrier round trip
MaxLen == 2
\* most query parameters of a URL drawn for cleanupURL
MaxParams == 2
\* page loads (URL-driven runs) in one behaviour
MaxRuns == 2
\* messages the listener receives in one behaviour
MaxMsgs == 1

\* the most elements in a document searched by queryWithSelectors
MaxElems == 2

\* the most selectors in a list given to queryWithSelectors
MaxSelectors == 2

\* the most storage change events waiting to be delivered to the loader
MaxEvents == 1

(***************************************************************************)
(* Program constants                                                       *)
(***************************************************************************)
\* CONFIG.URL_PARAM, "bg_prompt"
URL_PARAM == <<98,103,95,112,114,111,109,112,116>>
\* GEMINI_BASE_URL, "https://gemini.google.com/app"
GEMINI_BASE_URL == <<104,116,116,112,115,58,47,47,103,101,109,105,110,105,46,103,111,111,103,108,101,46,99,111,109,47,97,112,112>>
\* CONFIG.SELECTORS.LOGIN_PAGE_PATTERNS
LOGIN_PAGE_PATTERNS ==
    { <<97,99,99,111,117,110,116,115,46,103,111,111,103,108,101,46,99,111,109,47,115,105,103,110,105,110>>,
      <<97,99,99,111,117,110,116,115,46,103,111,111,103,108,101,46,99,111,109,47,118,51,47,115,105,103,110,105,110>>,
      <<97,99,99,111,117,110,116,115,46,103,111,111,103,108,101,46,99,111,109,47,83,101,114,118,105,99,101,76,111,103,105,110>> }
\* CONFIG.RETRY.MAX_ATTEMPTS
MAX_ATTEMPTS == 3

(***************************************************************************)
(* Strings                                                                 *)
(***************************************************************************)
RECURSIVE Flatten(_)
\* concatenation of a sequence of strings
Flatten(ss) == IF ss = <<>> THEN <<>> ELSE Head(ss) \o Flatten(Tail(ss))

\* the strings over alphabet A of length at most n
StringsUpTo(A, n) == UNION { [1..k -> A] : k \in 0..n }

\* String.prototype.includes
Includes(s, pat) ==
    \E i \in 0..(Len(s) - Len(pat)) : SubSeq(s, i + 1, i + Len(pat)) = pat

\* index of the first occurrence of code point c in s, 0 when there is none
IndexOf(s, c) ==
    IF \E i \in 1..Len(s) : s[i] = c
    THEN CHOOSE i \in 1..Len(s) : s[i] = c /\ \A j \in 1..(i - 1) : s[j] # c
    ELSE 0

RECURSIVE Split(_, _)
\* String.prototype.split on one code point
Split(s, c) ==
    LET i == IndexOf(s, c)
    IN  IF i = 0 THEN <<s>>
        ELSE <<SubSeq(s, 1, i - 1)>> \o Split(SubSeq(s, i + 1, Len(s)), c)

\* the value of an ASCII hex digit, -1 for any other code point
HexVal(c) ==
    IF c \in 48..57 THEN c - 48
    ELSE IF c \in 65..70 THEN c - 55
    ELSE IF c \in 97..102 THEN c - 87
    ELSE -1

\* the upper-case hex digit of n in 0..15
HexChar(n) == IF n < 10 THEN 48 + n ELSE 55 + n

\* "%XX" of one byte
PercentByte(b) == <<37, HexChar(b \div 16), HexChar(b % 16)>>

\* UTF-8 encoding of one code point
UTF8Encode(cp) ==
    IF cp < 128 THEN <<cp>>
    ELSE IF cp < 2048 THEN <<192 + (cp \div 64), 128 + (cp % 64)>>
    ELSE IF cp < 65536
         THEN <<224 + (cp \div 4096), 128 + ((cp \div 64) % 64), 128 + (cp % 64)>>
    ELSE <<240 + (cp \div 262144), 128 + ((cp \div 4096) % 64),
           128 + ((cp \div 64) % 64), 128 + (cp % 64)>>

\* UTF-8 encoding of a string
UTF8Bytes(s) == Flatten([i \in 1..Len(s) |-> UTF8Encode(s[i])])

\* number of continuation bytes a lead byte announces, 0 for a byte that
\* cannot start a multi-byte sequence
Utf8Need(b) ==
    IF b \in 194..223 THEN 1
    ELSE IF b \in 224..239 THEN 2
    ELSE IF b \in 240..244 THEN 3
    ELSE 0

\* is c a valid k-th continuation byte after lead byte b
Utf8ContOk(b, k, c) ==
    LET lo == IF k = 1 /\ b = 224 THEN 160 ELSE IF k = 1 /\ b = 240 THEN 144 ELSE 128
        hi == IF k = 1 /\ b = 237 THEN 159 ELSE IF k = 1 /\ b = 244 THEN 143 ELSE 191
    IN  c \in lo..hi

\* how many valid continuation bytes follow the lead byte at position i
Utf8Good(bs, i) ==
    LET b == bs[i]
        ok(k) == \A j \in 1..k : i + j <= Len(bs) /\ Utf8ContOk(b, j, bs[i + j])
    IN  CHOOSE k \in 0..Utf8Need(b) :
            ok(k) /\ \A m \in (k + 1)..Utf8Need(b) : ~ok(m)

\* the code point of the complete sequence starting at position i
Utf8CodePoint(bs, i) ==
    LET b == bs[i]
        n == Utf8Need(b)
    IN  IF n = 1 THEN (b - 192) * 64 + (bs[i + 1] - 128)
        ELSE IF n = 2
             THEN (b - 224) * 4096 + (bs[i + 1] - 128) * 64 + (bs[i + 2] - 128)
        ELSE (b - 240) * 262144 + (bs[i + 1] - 128) * 4096
               + (bs[i + 2] - 128) * 64 + (bs[i + 3] - 128)

RECURSIVE UTF8DecodeFrom(_, _)
\* the platform's "UTF-8 decode without BOM": an ill-formed subsequence
\* becomes U+FFFD (65533)
UTF8DecodeFrom(bs, i) ==
    IF i > Len(bs) THEN <<>>
    ELSE IF bs[i] < 128 THEN <<bs[i]>> \o UTF8DecodeFrom(bs, i + 1)
    ELSE IF Utf8Need(bs[i]) = 0 THEN <<65533>> \o UTF8DecodeFrom(bs, i + 1)
    ELSE IF Utf8Good(bs, i) = Utf8Need(bs[i])
         THEN <<Utf8CodePoint(bs, i)>> \o UTF8DecodeFrom(bs, i + Utf8Need(bs[i]) + 1)
    ELSE <<65533>> \o UTF8DecodeFrom(bs, i + Utf8Good(bs, i) + 1)

\* lossy UTF-8 decoding of a byte sequence
UTF8Decode(bs) == UTF8DecodeFrom(bs, 1)

(***************************************************************************)
(* Percent-encoding                                                        *)
(***************************************************************************)
\* a value that is either null or a string
Null == [isNull |-> TRUE, str |-> <<>>]
Str(s) == [isNull |-> FALSE, str |-> s]

\* percent-encode the UTF-8 bytes of s, keeping the bytes in keep
PercentEncode(s, keep) ==
    LET bs == UTF8Bytes(s)
    IN  Flatten([i \in 1..Len(bs) |->
                    IF bs[i] \in keep THEN <<bs[i]>> ELSE PercentByte(bs[i])])

\* ASCII letters and digits
AlphaNum == (48..57) \cup (65..90) \cup (97..122)

\* the characters encodeURIComponent leaves alone: A-Z a-z 0-9 - _ . ! ~ * ' ( )
UriUnreserved == AlphaNum \cup {45, 95, 46, 33, 126, 42, 39, 40, 41}

\* the bytes the URL parser leaves alone in the query of an https URL:
\* all of ASCII but C0 controls, space, " # < > ' and DEL
QueryKeep == (33..126) \ {34, 35, 60, 62, 39}

\* the bytes the URL parser leaves alone in a fragment
FragmentKeep == (33..126) \ {34, 60, 62, 96}

\* the bytes the application/x-www-form-urlencoded serializer leaves alone:
\* A-Z a-z 0-9 * - . _
FormKeep == AlphaNum \cup {42, 45, 46, 95}

\* encodeURIComponent (background.js line 74)
encodeURIComponent(s) == PercentEncode(s, UriUnreserved)

\* the byte written at s[k..k+2] as "%XX", -1 when that is no escape
EscapeAt(s, k) ==
    IF k + 2 <= Len(s) /\ s[k] = 37 /\ HexVal(s[k + 1]) >= 0 /\ HexVal(s[k + 2]) >= 0
    THEN 16 * HexVal(s[k + 1]) + HexVal(s[k + 2])
    ELSE -1

RECURSIVE DecodeFrom(_, _)
\* ECMAScript Decode with an empty reserved set, from position k:
\* [ok |-> FALSE] stands for the URIError it throws
DecodeFrom(s, k) ==
    IF k > Len(s) THEN [ok |-> TRUE, val |-> <<>>]
    ELSE IF s[k] # 37
         THEN LET r == DecodeFrom(s, k + 1)
              IN  [ok |-> r.ok, val |-> <<s[k]>> \o r.val]
    ELSE LET B == EscapeAt(s, k)
             n == Utf8Need(B)
             bs == [j \in 1..(n + 1) |-> EscapeAt(s, k + 3 * (j - 1))]
         IN  IF B < 0 THEN [ok |-> FALSE, val |-> <<>>]
             ELSE IF B < 128
                  THEN LET r == DecodeFrom(s, k + 3)
                       IN  [ok |-> r.ok, val |-> <<B>> \o r.val]
             ELSE IF n = 0 THEN [ok |-> FALSE, val |-> <<>>]
             ELSE IF (\E j \in 1..(n + 1) : bs[j] < 0) \/ Utf8Good(bs, 1) # n
                  THEN [ok |-> FALSE, val |-> <<>>]
             ELSE LET r == DecodeFrom(s, k + 3 * (n + 1))
                  IN  [ok |-> r.ok, val |-> <<Utf8CodePoint(bs, 1)>> \o r.val]

\* decodeURIComponent (injector.js line 144)
decodeURIComponent(s) == DecodeFrom(s, 1)

RECURSIVE PercentDecodeFrom(_, _)
\* the URL standard's percent-decode of a byte sequence: an escape becomes
\* its byte, a "%" that starts no escape stays
PercentDecodeFrom(bs, i) ==
    IF i > Len(bs) THEN <<>>
    ELSE IF EscapeAt(bs, i) >= 0
         THEN <<EscapeAt(bs, i)>> \o PercentDecodeFrom(bs, i + 3)
    ELSE <<bs[i]>> \o PercentDecodeFrom(bs, i + 1)

\* name or value of a form-urlencoded pair: "+" is a space, then
\* percent-decode, then UTF-8 decode
FormDecode(bs) ==
    UTF8Decode(PercentDecodeFrom([i \in 1..Len(bs) |-> IF bs[i] = 43 THEN 32 ELSE bs[i]], 1))

\* one "name=value" piece of a query
FormPair(piece) ==
    LET i == IndexOf(piece, 61)
    IN  IF i = 0 THEN <<FormDecode(piece), <<>> >>
        ELSE <<FormDecode(SubSeq(piece, 1, i - 1)),
               FormDecode(SubSeq(piece, i + 1, Len(piece)))>>

\* keep the members of a sequence that satisfy Test
SelectPairs(seq, Test(_)) == SelectSeq(seq, Test)

\* new URLSearchParams(search): the list of (name, value) pairs
URLSearchParams(search) ==
    LET q == IF search # <<>> /\ search[1] = 63 THEN Tail(search) ELSE search
        pieces == SelectPairs(Split(UTF8Bytes(q), 38), LAMBDA p : p # <<>>)
    IN  [i \in 1..Len(pieces) |-> FormPair(pieces[i])]

\* URLSearchParams.get: the value of the first pair with that name, or null
ParamsGet(list, name) ==
    IF \E i \in 1..Len(list) : list[i][1] = name
    THEN Str(list[CHOOSE i \in 1..Len(list) :
                    list[i][1] = name /\ \A j \in 1..(i - 1) : list[j][1] # name][2])
    ELSE Null

\* URLSearchParams.delete: every pair with that name is removed
ParamsDelete(list, name) == SelectPairs(list, LAMBDA p : p[1] # name)

\* the form-urlencoded byte serializer of a name or a value
FormEncode(s) ==
    LET e == PercentEncode(s, FormKeep \cup {32})
    IN  [i \in 1..Len(e) |-> IF e[i] = 32 THEN 43 ELSE e[i]]

RECURSIVE SerializeParams(_)
\* the application/x-www-form-urlencoded serializer
SerializeParams(list) ==
    IF list = <<>> THEN <<>>
    ELSE FormEncode(list[1][1]) \o <<61>> \o FormEncode(list[1][2])
         \o (IF Len(list) > 1 THEN <<38>> \o SerializeParams(Tail(list)) ELSE <<>>)

(***************************************************************************)
(* URLs                                                                    *)
(***************************************************************************)
\* new URL(href): what precedes the query, the query and the fragment (null
\* when the URL has none)
ParseURL(href) ==
    LET h == IndexOf(href, 35)
        front == IF h = 0 THEN href ELSE SubSeq(href, 1, h - 1)
        q == IndexOf(front, 63)
    IN  [base |-> IF q = 0 THEN front ELSE SubSeq(front, 1, q - 1),
         query |-> IF q = 0 THEN Null
                   ELSE Str(PercentEncode(SubSeq(front, q + 1, Len(front)), QueryKeep)),
         hash |-> IF h = 0 THEN Null
                  ELSE Str(PercentEncode(SubSeq(href, h + 1, Len(href)), FragmentKeep))]

\* URL.prototype.toString
SerializeURL(url) ==
    url.base
    \o (IF url.query.isNull THEN <<>> ELSE <<63>> \o url.query.str)
    \o (IF url.hash.isNull THEN <<>> ELSE <<35>> \o url.hash.str)

\* location.search: "" for a null or empty query
LocationSearch(href) ==
    LET url == ParseURL(href)
    IN  IF url.query.isNull \/ url.query.str = <<>> THEN <<>>
        ELSE <<63>> \o url.query.str

\* the URL a navigation to the string s ends on
Navigate(s) == SerializeURL(ParseURL(s))

(***************************************************************************)
(* Prompt Channel, URL carrier                                             *)
(***************************************************************************)
\* buildGeminiUrl(prompt): `${GEMINI_BASE_URL}?${urlParam}=${encodedPrompt}`
buildGeminiUrl(prompt) ==
    GEMINI_BASE_URL \o <<63>> \o URL_PARAM \o <<61>> \o encodeURIComponent(prompt)

\* the code points String.prototype.trim removes: white space and line
\* terminators
WhiteSpace ==
    {9, 10, 11, 12, 13, 32, 160, 5760, 8232, 8233, 8239, 8287, 12288, 65279} \cup 8192..8202

\* String.prototype.trim
RECURSIVE trim(_)
trim(s) ==
    IF s = <<>> THEN s
    ELSE IF Head(s) \in WhiteSpace THEN trim(Tail(s))
    ELSE IF s[Len(s)] \in WhiteSpace THEN trim(SubSeq(s, 1, Len(s) - 1))
    ELSE s

\* a call of chrome.tabs made by navigateToUrl, and whether it returned
TabsCall(api, url, active, ok) == [api |-> api, url |-> url, active |-> active, ok |-> ok]

\* navigateToUrl(url, disposition, chromeApi): the chrome.tabs calls made and
\* whether it threw.  env says what the browser does: is chrome.tabs
\* there, is there an active tab, and which call, if any, rejects.
navigateToUrl(url, disposition, env) ==
    IF ~env.api THEN [url |-> url, threw |-> TRUE, calls |-> <<>>]
    ELSE IF disposition = "newForegroundTab"
    THEN [url |-> url, threw |-> env.fails = "create",
          calls |-> <<TabsCall("create", url, TRUE, env.fails # "create")>>]
    ELSE IF disposition = "newBackgroundTab"
    THEN [url |-> url, threw |-> env.fails = "create",
          calls |-> <<TabsCall("create", url, FALSE, env.fails # "create")>>]
    ELSE IF env.fails = "query"
    THEN [url |-> url, threw |-> TRUE, calls |-> <<TabsCall("query", <<>>, TRUE, FALSE)>>]
    ELSE IF env.activeTab
    THEN [url |-> url, threw |-> env.fails = "update",
          calls |-> <<TabsCall("query", <<>>, TRUE, TRUE),
                      TabsCall("update", url, TRUE, env.fails # "update")>>]
    ELSE [url |-> url, threw |-> env.fails = "create",
          calls |-> <<TabsCall("query", <<>>, TRUE, TRUE),
                      TabsCall("create", url, TRUE, env.fails # "create")>>]

\* handleInputEntered as it would be if the fallback navigation were not
\* in a try of its own
handleInputEntered_fallbackThrows(text, disposition, env, envFallback) ==
    LET trimmedText == trim(text)
        home == navigateToUrl(GEMINI_BASE_URL, disposition, env)
        first == navigateToUrl(buildGeminiUrl(trimmedText), disposition, env)
        fallback == navigateToUrl(GEMINI_BASE_URL, disposition, envFallback)
    IN  IF trimmedText = <<>> THEN [threw |-> home.threw, navigations |-> <<home>>]
        ELSE IF ~first.threw THEN [threw |-> FALSE, navigations |-> <<first>>]
        ELSE [threw |-> fallback.threw, navigations |-> <<first, fallback>>]

\* handleInputEntered(text, disposition, chromeApi): the navigations
\* attempted, in order, and whether the handler threw; env is what the
\* browser does at the first navigation, envFallback at the fallback
handleInputEntered(text, disposition, env, envFallback) ==
    LET trimmedText == trim(text)
        home == navigateToUrl(GEMINI_BASE_URL, disposition, env)
        first == navigateToUrl(buildGeminiUrl(trimmedText), disposition, env)
        fallback == navigateToUrl(GEMINI_BASE_URL, disposition, envFallback)
    IN  IF trimmedText = <<>> THEN [threw |-> home.threw, navigations |-> <<home>>]
        ELSE IF ~first.threw THEN [threw |-> FALSE, navigations |-> <<first>>]
        ELSE [threw |-> FALSE, navigations |-> <<first, fallback>>]

\* getPromptFromURL as it would be if it took the value of the first
\* parameter of the query, whatever its name
getPromptFromURL_firstParam(search) ==
    LET list == URLSearchParams(search)
        encodedPrompt == IF list = <<>> THEN Null ELSE Str(list[1][2])
        decodedPrompt == decodeURIComponent(encodedPrompt.str)
    IN  IF encodedPrompt.isNull \/ encodedPrompt.str = <<>> THEN Null
        ELSE IF decodedPrompt.ok THEN Str(decodedPrompt.val)
        ELSE Null

\* getPromptFromURL(location.search): the decoded prompt, or null
getPromptFromURL(search) ==
    LET encodedPrompt == ParamsGet(URLSearchParams(search), URL_PARAM)
        decodedPrompt == decodeURIComponent(encodedPrompt.str)
    IN  IF encodedPrompt.isNull \/ encodedPrompt.str = <<>> THEN Null
        ELSE IF decodedPrompt.ok THEN Str(decodedPrompt.val)
        ELSE Null

\* cleanupURL as it would be if it deleted a parameter of another name
\* ("prompt")
cleanupURL_wrongParam(href) ==
    LET url == ParseURL(href)
        list == ParamsDelete(URLSearchParams(url.query.str), <<112,114,111,109,112,116>>)
        q == SerializeParams(list)
    IN  SerializeURL([url EXCEPT !.query = IF q = <<>> THEN Null ELSE Str(q)])

\* cleanupURL as it would be if it cleared the whole query (url.search = '')
\* instead of deleting the one parameter
cleanupURL_clearsQuery(href) ==
    SerializeURL([ParseURL(href) EXCEPT !.query = Null])

\* the URL cleanupURL hands to history.replaceState: new URL(href), then
\* searchParams.delete(urlParam), which writes the serialized list back as
\* the query (null when it is empty), then toString()
cleanupURL(href) ==
    LET url == ParseURL(href)
        list == ParamsDelete(URLSearchParams(url.query.str), URL_PARAM)
        q == SerializeParams(list)
    IN  SerializeURL([url EXCEPT !.query = IF q = <<>> THEN Null ELSE Str(q)])

\* the (name, value) pairs of the query of a URL
ParamsOf(h) == URLSearchParams(LocationSearch(h))

\* does the URL carry the prompt parameter
HasPromptParam(h) == ~ParamsGet(ParamsOf(h), URL_PARAM).isNull

(***************************************************************************)
(* State                                                                   *)
(***************************************************************************)
VARIABLES
    href,       \* window.location.href
    carrier,    \* the URL carrier followed end to end: the text typed, the
                \* prompt extracted, the successive values of href
    call,       \* a call of one function followed on its own: the function,
                \* its arguments and, once it has returned, its result
    doc,        \* the host document: body, input element, its text, send button
    pc,         \* where the URL-driven run (main) stands
    prompt,     \* main's local: the prompt extracted from the URL
    attempt,    \* clickSendButton's attempt number
    observer,   \* is waitForElement's MutationObserver connected
    timer,      \* the pending setTimeout of the run, "none" when there is none
    log,        \* what the run has done and observed, in order
    runNo,      \* page loads so far
    faults,     \* may the platform calls the code guards with try/catch throw
    hist,       \* window.history: the number of entries and the state of
                \* the current one
    msgs,       \* the messages the onMessage listener has been called with,
                \* each with the replies sent and its injection, if any
    loader      \* the feature loader: its featuresInitialized, the feature
                \* modules, the stored settings and the change events pending

vars == <<href, carrier, call, doc, pc, prompt, attempt, observer, timer, log, runNo, faults, hist, msgs, loader>>

\* no function is followed on its own
NoCall == [fn |-> "none", args |-> <<>>, result |-> <<>>, returned |-> FALSE]

runVars == <<call, doc, pc, prompt, attempt, observer, timer, log, runNo, faults, msgs, loader>>

(***************************************************************************)
(* Feature loader: feature-loader.js.  The loader is a record: where the   *)
(* script stands (pc), its featuresInitialized flags, what each feature    *)
(* module on window offers (avail), the last call of each module that      *)
(* returned (last), the module calls made by the handler that ran last     *)
(* (step), the settings stored under STORAGE_KEY, the settings read for    *)
(* initializeFeatures (snapshot) and the change events not yet delivered.  *)
(* A setting is "true", "false" or "undefined" (not in the object).        *)
(***************************************************************************)
Features == {"exportMarkdown", "keyboardShortcuts", "widerChatWidth"}

\* the features that have a destroy function in the loader
Destroyable == {"keyboardShortcuts", "widerChatWidth"}

DEFAULT_SETTINGS == [f \in Features |-> "true"]

\* no value under STORAGE_KEY (result[STORAGE_KEY], newValue are undefined)
NoValue == [f \in Features |-> "absent"]

\* value || DEFAULT_SETTINGS
OrDefaults(value) == IF value = NoValue THEN DEFAULT_SETTINGS ELSE value

\* settings.feature !== false
IsOn(settings, f) == settings[f] # "false"

\* the loader before its script has run
LoaderOff ==
    [pc |-> "off",
     initialized |-> [f \in Features |-> FALSE],
     avail |-> [f \in Features |-> "full"],
     last |-> [f \in Features |-> "none"],
     step |-> <<>>,
     stored |-> NoValue,
     snapshot |-> NoValue,
     events |-> <<>>]

\* a call of a feature module's init or destroy, and whether it returned
ModuleCall(f, op, ok) == [feature |-> f, op |-> op, ok |-> ok]

\* initExportMarkdown / initKeyboardShortcuts / initWiderChat as they would
\* be without the test of featuresInitialized
initFeature_noGuard(L, f, ok) ==
    IF L.avail[f] # "missing"
    THEN IF ok[f]
         THEN [L EXCEPT !.initialized[f] = TRUE, !.last[f] = "init",
                        !.step = Append(@, ModuleCall(f, "init", TRUE))]
         ELSE [L EXCEPT !.step = Append(@, ModuleCall(f, "init", FALSE))]
    ELSE L

\* initExportMarkdown / initKeyboardShortcuts / initWiderChat, the three
\* differing in the feature only: nothing when the feature is marked
\* initialized; the module's init() when window has it, the mark set when
\* it returns and left when it throws (ok[f] false)
initFeature(L, f, ok) ==
    IF L.initialized[f] THEN L
    ELSE IF L.avail[f] # "missing"
    THEN IF ok[f]
         THEN [L EXCEPT !.initialized[f] = TRUE, !.last[f] = "init",
                        !.step = Append(@, ModuleCall(f, "init", TRUE))]
         ELSE [L EXCEPT !.step = Append(@, ModuleCall(f, "init", FALSE))]
    ELSE L

\* destroyKeyboardShortcuts / destroyWiderChat: nothing when the feature is
\* not marked initialized; the module's destroy() when it has one, the
\* mark cleared when it returns and left when it throws
destroyFeature(L, f, ok) ==
    IF ~L.initialized[f] THEN L
    ELSE IF L.avail[f] \in {"full", "throws"}
    THEN IF ok[f]
         THEN [L EXCEPT !.initialized[f] = FALSE, !.last[f] = "destroy",
                        !.step = Append(@, ModuleCall(f, "destroy", TRUE))]
         ELSE [L EXCEPT !.step = Append(@, ModuleCall(f, "destroy", FALSE))]
    ELSE L

\* the callback of loadSettings().then in initializeFeatures: each feature
\* whose setting is not false is initialized
SettingsLoadedCallback(L, settings, ok) ==
    LET L0 == [L EXCEPT !.step = <<>>]
        L1 == IF IsOn(settings, "exportMarkdown") THEN initFeature(L0, "exportMarkdown", ok) ELSE L0
        L2 == IF IsOn(settings, "keyboardShortcuts") THEN initFeature(L1, "keyboardShortcuts", ok) ELSE L1
        L3 == IF IsOn(settings, "widerChatWidth") THEN initFeature(L2, "widerChatWidth", ok) ELSE L2
    IN  L3

\* the part of handleSettingsChange for a feature that can be destroyed
ChangeDestroyable(L, f, newSettings, ok) ==
    IF IsOn(newSettings, f) /\ ~L.initialized[f] THEN initFeature(L, f, ok)
    ELSE IF newSettings[f] = "false" /\ L.initialized[f] THEN destroyFeature(L, f, ok)
    ELSE L

\* handleSettingsChange as it would be if it only ever enabled features
handleSettingsChange_enableOnly(L, changes, areaName, ok) ==
    IF areaName # "sync" \/ ~changes.hasKey THEN [L EXCEPT !.step = <<>>]
    ELSE SettingsLoadedCallback(L, OrDefaults(changes.newValue), ok)

\* handleSettingsChange(changes, areaName)
handleSettingsChange(L, changes, areaName, ok) ==
    IF areaName # "sync" \/ ~changes.hasKey THEN [L EXCEPT !.step = <<>>]
    ELSE LET newSettings == OrDefaults(changes.newValue)
             L0 == [L EXCEPT !.step = <<>>]
             L1 == IF IsOn(newSettings, "exportMarkdown") /\ ~L0.initialized["exportMarkdown"]
                   THEN initFeature(L0, "exportMarkdown", ok) ELSE L0
             L2 == ChangeDestroyable(L1, "keyboardShortcuts", newSettings, ok)
             L3 == ChangeDestroyable(L2, "widerChatWidth", newSettings, ok)
         IN  L3

\* what the calls of the modules can do in one handler: a module throws
\* only if it is one that can
Outcomes(L) == { ok \in [Features -> BOOLEAN] : \A f \in Features : L.avail[f] # "throws" => ok[f] }

\* the values stored under STORAGE_KEY by the options page: all on, one or
\* both of the destroyable features off, an object without the keys, export
\* off; and no value
SettingsValues ==
    { DEFAULT_SETTINGS,
      [DEFAULT_SETTINGS EXCEPT !["keyboardShortcuts"] = "false"],
      [DEFAULT_SETTINGS EXCEPT !["widerChatWidth"] = "false"],
      [DEFAULT_SETTINGS EXCEPT !["keyboardShortcuts"] = "false", !["widerChatWidth"] = "false"],
      [f \in Features |-> "undefined"],
      [DEFAULT_SETTINGS EXCEPT !["exportMarkdown"] = "false", !["keyboardShortcuts"] = "undefined"] }

\* a call of chrome.storage.onChanged listeners: the area and changes[STORAGE_KEY]
Change(areaName, hasKey, newValue) == [areaName |-> areaName, hasKey |-> hasKey, newValue |-> newValue]

\* the changes handleSettingsChange can be called with
Changes ==
    { Change("sync", TRUE, v) : v \in SettingsValues \cup {NoValue} }
    \cup { Change("local", TRUE, [DEFAULT_SETTINGS EXCEPT !["keyboardShortcuts"] = "false"]),
           Change("sync", FALSE, NoValue) }

\* what window offers for the features: every module whole; one missing;
\* one without destroy; one whose calls can throw
Avails ==
    { [f \in Features |-> "full"],
      [f \in Features |-> IF f = "keyboardShortcuts" THEN "missing" ELSE "full"],
      [f \in Features |-> IF f = "widerChatWidth" THEN "noDestroy" ELSE "full"],
      [f \in Features |-> IF f = "keyboardShortcuts" THEN "throws" ELSE "full"] }

(***************************************************************************)
(* window.history                                                          *)
(***************************************************************************)
\* the histories a tab can have when a page is loaded in it: the page is the
\* first entry or the second; the state of the entry is null or a value the
\* host application has stored ("app")
Histories == { [length |-> 1, state |-> "null"], [length |-> 2, state |-> "app"] }

\* history.replaceState as it would be if it were history.pushState
replaceState_pushes(h, state) == [length |-> h.length + 1, state |-> state]

\* history.replaceState(state, '', url): the current entry takes the state
\* (and the URL), the number of entries stays
replaceState(h, state) == [h EXCEPT !.state = state]

\* a navigation of the tab: a new entry, its state null
NavigateEntry(h) == [length |-> h.length + 1, state |-> "null"]

(***************************************************************************)
(* The URL carrier on its own: a prompt typed in the omnibox is built into *)
(* a URL, the page is loaded, the prompt is extracted and the URL cleaned. *)
(***************************************************************************)
\* the characters prompts are drawn from: H, space, % & + = #, e-acute,
\* U+1F914, 4, 1
PromptChars == {72, 32, 37, 38, 43, 61, 35, 233, 129300, 52, 49}

Prompts == StringsUpTo(PromptChars, MaxLen) \ {<<>>}

\* raw query pieces URLs are drawn from
RawParams ==
    { URL_PARAM \o <<61,72,105>>,              \* bg_prompt=Hi
      URL_PARAM \o <<61,72,37,50,48,105>>,     \* bg_prompt=H%20i
      URL_PARAM \o <<61>>,                     \* bg_prompt=
      URL_PARAM,                               \* bg_prompt
      URL_PARAM \o <<61,37>>,                  \* bg_prompt=%
      <<97,61,49>>,                            \* a=1
      <<113,61,97,37,50,48,98>>,               \* q=a%20b
      <<113,61,97,43,98>>,                     \* q=a+b
      <<102,108,97,103>>,                      \* flag
      URL_PARAM \o <<50,61,120>>,              \* bg_prompt2=x
      <<98,103,37,53,70,112,114,111,109,112,116,61,121>>,  \* bg%5Fprompt=y
      <<>> }                                   \* an empty piece, as in a&&b

RECURSIVE JoinAmp(_)
\* pieces joined by "&"
JoinAmp(ps) ==
    IF ps = <<>> THEN <<>>
    ELSE IF Len(ps) = 1 THEN ps[1]
    ELSE ps[1] \o <<38>> \o JoinAmp(Tail(ps))

\* the queries URLs are drawn from
Queries == { JoinAmp(ps) : ps \in StringsUpTo(RawParams, MaxParams) \ {<<>>} }

\* the URLs a page of the application can be loaded on
Hrefs ==
    { GEMINI_BASE_URL \o q \o f :
        q \in {<<>>} \cup { <<63>> \o x : x \in Queries },
        f \in { <<>>, <<35,115,101,99>> } }     \* "", "#sec"

\* the state of the run when only the carrier is followed
RunOff ==
    /\ call = NoCall
    /\ loader = LoaderOff
    /\ doc = [body |-> TRUE, input |-> "absent", text |-> <<>>, button |-> "absent"]
    /\ pc = "off"
    /\ prompt = Null
    /\ attempt = 0
    /\ observer = FALSE
    /\ timer = "none"
    /\ log = <<>>
    /\ runNo = 0
    /\ faults = FALSE
    /\ msgs = <<>>

InitUrl ==
    /\ RunOff
    /\ hist = [length |-> 1, state |-> "app"]
    /\ \/ \E s \in Prompts :
            /\ carrier = [phase |-> "typed", text |-> Str(s), prompt |-> Null, hrefs |-> <<>>]
            /\ href = <<>>
       \/ \E h \in Hrefs :
            /\ carrier = [phase |-> "loaded", text |-> Null, prompt |-> Null, hrefs |-> <<h>>]
            /\ href = h

\* background.js: the tab is navigated to buildGeminiUrl(text)
BuildAndNavigate ==
    /\ carrier.phase = "typed"
    /\ href' = Navigate(buildGeminiUrl(carrier.text.str))
    /\ carrier' = [carrier EXCEPT !.phase = "loaded", !.hrefs = <<href'>>]
    /\ hist' = NavigateEntry(hist)
    /\ UNCHANGED runVars

\* injector.js: getPromptFromURL() on the loaded page
Extract ==
    /\ carrier.phase = "loaded"
    /\ carrier' = [carrier EXCEPT !.phase = "extracted",
                                  !.prompt = getPromptFromURL(LocationSearch(href))]
    /\ UNCHANGED <<href, hist, runVars>>

\* injector.js: cleanupURL(), history.replaceState taking the new URL
Cleanup ==
    /\ carrier.phase = "extracted"
    /\ Len(carrier.hrefs) < 3
    /\ href' = cleanupURL(href)
    /\ carrier' = [carrier EXCEPT !.hrefs = Append(@, href')]
    /\ hist' = replaceState(hist, hist.state)
    /\ UNCHANGED runVars

NextUrl == BuildAndNavigate \/ Extract \/ Cleanup

SpecUrl == InitUrl /\ [][NextUrl]_vars

(***************************************************************************)
(* Session Guard, Text Injector                                            *)
(***************************************************************************)
\* isUserLoggedOut as it would be if it looked for the logged-in indicators
\* before the URL
isUserLoggedOut_indicatorsFirst(h, d) ==
    IF d.input = "present" THEN FALSE
    ELSE IF \E pattern \in LOGIN_PAGE_PATTERNS : Includes(h, pattern) THEN TRUE
    ELSE FALSE

\* isUserLoggedOut as it would be if it took a link to the authentication
\* domain in the document for a login page
isUserLoggedOut_linkScan(h, d) ==
    IF \E pattern \in LOGIN_PAGE_PATTERNS : Includes(h, pattern) THEN TRUE
    ELSE d.authLink

\* isUserLoggedOut(window, document): TRUE only on a login-page URL pattern
isUserLoggedOut(h, d) ==
    IF \E pattern \in LOGIN_PAGE_PATTERNS : Includes(h, pattern) THEN TRUE
    ELSE IF d.input = "present" THEN FALSE       \* a logged-in indicator
    ELSE IF Includes(h, <<103,101,109,105,110,105,46,103,111,111,103,108,101,46,99,111,109>>)
         THEN FALSE                              \* on gemini.google.com, still loading
    ELSE FALSE

\* what the platform can do under injectText: execCommand inserts the text;
\* execCommand reports FALSE and the fallback runs through; a call of the
\* primary path throws; the fallback throws after clearing the content
\* (the 'beforeinput' event); the fallback throws after setting the content
\* (the 'input' event)
InjectCases ==
    {"primary", "fallback"}
    \cup (IF faults THEN {"primaryThrows", "fallbackThrowsEarly", "fallbackThrowsLate"} ELSE {})

\* a platform call made on the element or the document, with the text it
\* carries and what it returned
Ev(type, data, returned) == [type |-> type, data |-> data, returned |-> returned]

\* the calls of the primary path: focus(), the selection of the element's
\* whole content, execCommand('insertText', false, text) and its report
PrimaryEvents(text, success) ==
    <<Ev("focus", <<>>, TRUE), Ev("selectAll", <<>>, TRUE), Ev("execCommand", text, success)>>

\* injectTextWithInputEvent as it would be if it set the content before
\* it dispatched 'beforeinput'
injectTextWithInputEvent_setFirst(text, case) ==
    IF case = "fallbackThrowsEarly"
    THEN [ok |-> FALSE, text |-> text, events |-> <<Ev("clear", <<>>, TRUE), Ev("set", text, TRUE)>>]
    ELSE IF case = "fallbackThrowsLate"
    THEN [ok |-> FALSE, text |-> text,
          events |-> <<Ev("clear", <<>>, TRUE), Ev("set", text, TRUE), Ev("beforeinput", text, TRUE)>>]
    ELSE [ok |-> TRUE, text |-> text,
          events |-> <<Ev("clear", <<>>, TRUE), Ev("set", text, TRUE),
                       Ev("beforeinput", text, TRUE), Ev("input", text, TRUE)>>]

\* injectTextWithInputEvent(inputElement, text): the result, the content and
\* the calls made, in order: textContent = '', dispatch of 'beforeinput'
\* with data = text, textContent = text, dispatch of 'input' with data = text
injectTextWithInputEvent(text, case) ==
    IF case = "fallbackThrowsEarly"
    THEN [ok |-> FALSE, text |-> <<>>, events |-> <<Ev("clear", <<>>, TRUE)>>]
    ELSE IF case = "fallbackThrowsLate"
    THEN [ok |-> FALSE, text |-> text,
          events |-> <<Ev("clear", <<>>, TRUE), Ev("beforeinput", text, TRUE), Ev("set", text, TRUE)>>]
    ELSE [ok |-> TRUE, text |-> text,
          events |-> <<Ev("clear", <<>>, TRUE), Ev("beforeinput", text, TRUE),
                       Ev("set", text, TRUE), Ev("input", text, TRUE)>>]

\* injectText as it would be if the primary path did not select the old
\* content before inserting: the text lands after it
injectText_appends(old, text, case) ==
    IF case = "primaryThrows"
    THEN [ok |-> FALSE, text |-> old, events |-> <<Ev("focus", <<>>, TRUE)>>]
    ELSE IF case = "primary"
    THEN [ok |-> TRUE, text |-> old \o text,
          events |-> <<Ev("focus", <<>>, TRUE), Ev("execCommand", text, TRUE)>>]
    ELSE LET f == injectTextWithInputEvent(text, case)
         IN  [f EXCEPT !.events = <<Ev("focus", <<>>, TRUE), Ev("execCommand", text, FALSE)>> \o @]

\* injectText as it would be if it returned the report of execCommand
\* without trying the fallback
injectText_noFallback(old, text, case) ==
    IF case = "primaryThrows"
    THEN [ok |-> FALSE, text |-> old,
          events |-> <<Ev("focus", <<>>, TRUE), Ev("selectAll", <<>>, TRUE)>>]
    ELSE IF case = "primary"
    THEN [ok |-> TRUE, text |-> text, events |-> PrimaryEvents(text, TRUE)]
    ELSE [ok |-> FALSE, text |-> old, events |-> PrimaryEvents(text, FALSE)]

\* injectText(inputElement, text): the result, the element's content
\* afterwards (old being its content before) and the calls made, in order;
\* when a call of the primary path throws it is execCommand
injectText(old, text, case) ==
    IF case = "primaryThrows"
    THEN [ok |-> FALSE, text |-> old,
          events |-> <<Ev("focus", <<>>, TRUE), Ev("selectAll", <<>>, TRUE)>>]
    ELSE IF case = "primary"
    THEN [ok |-> TRUE, text |-> text, events |-> PrimaryEvents(text, TRUE)]
    ELSE LET f == injectTextWithInputEvent(text, case)
         IN  [f EXCEPT !.events = PrimaryEvents(text, FALSE) \o @]

(***************************************************************************)
(* Readiness Waiter: waitForElement.  A wait is a record: has its promise  *)
(* settled, is its MutationObserver connected, is its timeout timer armed, *)
(* and the error it rejected with.                                         *)
(***************************************************************************)
\* a wait that is suspended
Pending(obs, tmr) == [settled |-> "no", observer |-> obs, timer |-> tmr, error |-> "none"]

\* waitForElement as it would be if it subscribed and armed its timer
\* before looking for the element
waitForElement_alwaysSubscribes(d) ==
    IF d.input = "present"
    THEN [settled |-> "resolved", observer |-> TRUE, timer |-> TRUE, error |-> "none"]
    ELSE IF d.body THEN Pending(TRUE, TRUE)
    ELSE [settled |-> "rejected", observer |-> FALSE, timer |-> FALSE, error |-> "no_body"]

\* waitForElement as it would be without its setTimeout
waitForElement_noTimer(d) ==
    IF d.input = "present"
    THEN [settled |-> "resolved", observer |-> FALSE, timer |-> FALSE, error |-> "none"]
    ELSE IF d.body THEN Pending(TRUE, FALSE)
    ELSE [settled |-> "rejected", observer |-> FALSE, timer |-> FALSE, error |-> "no_body"]

\* waitForElement(selectors) up to the return of its executor: resolved at
\* once when the element is there; else the timer is set and the observer
\* observes document.body; without a body the timer is cleared and the
\* promise rejected
waitForElement(d) ==
    IF d.input = "present"
    THEN [settled |-> "resolved", observer |-> FALSE, timer |-> FALSE, error |-> "none"]
    ELSE IF d.body THEN Pending(TRUE, TRUE)
    ELSE [settled |-> "rejected", observer |-> FALSE, timer |-> FALSE, error |-> "no_body"]

\* the timeout callback as it would be without observer.disconnect()
TimeoutCallback_noDisconnect(w) ==
    [settled |-> "rejected", observer |-> w.observer, timer |-> FALSE, error |-> "timeout"]

\* the timeout callback: observer.disconnect(), reject('Element not found
\* within ...ms'); the timer has fired
TimeoutCallback(w) ==
    [settled |-> "rejected", observer |-> FALSE, timer |-> FALSE, error |-> "timeout"]

\* the MutationObserver callback: when the element is there, clearTimeout,
\* disconnect and resolve; else nothing
ObserverCallback(w, d) ==
    IF d.input = "present"
    THEN [settled |-> "resolved", observer |-> FALSE, timer |-> FALSE, error |-> "none"]
    ELSE w

(***************************************************************************)
(* The URL-driven run: main() of content/injector.js.  One action is one   *)
(* task of the page's event loop: the code from one suspension point to    *)
(* the next.  The page changes the document between the tasks of the run.  *)
(***************************************************************************)
\* the states of the send button
ButtonStates == {"absent", "disabled", "ariaDisabled", "enabled"}

\* the documents a page load can start with: without a body there is
\* nothing in it; the input, when present, is empty or holds a draft ("x");
\* "inert" is the node of the input in the document before the page has set
\* its contenteditable attribute: no INPUT_FIELD selector matches it
Docs ==
    { [body |-> FALSE, input |-> "absent", text |-> <<>>, button |-> "absent"] }
    \cup { [body |-> TRUE, input |-> i, text |-> <<>>, button |-> b] :
            i \in {"absent", "inert"}, b \in ButtonStates }
    \cup { [body |-> TRUE, input |-> "present", text |-> x, button |-> b] :
            x \in { <<>>, <<120>> }, b \in ButtonStates }

\* the URLs the content script is loaded on (https://gemini.google.com/*)
RunHrefs ==
    { GEMINI_BASE_URL \o q :
        q \in { <<>>,                                            \* no query
                <<63>> \o URL_PARAM \o <<61,72,105>>,            \* ?bg_prompt=Hi
                <<63,97,61,49,38>> \o URL_PARAM \o <<61,72,37,50,48,105,35,115,101,99>>,
                                                                 \* ?a=1&bg_prompt=H%20i#sec
                <<63>> \o URL_PARAM \o <<61>>,                   \* ?bg_prompt=
                <<63>> \o URL_PARAM \o <<61,37>>,                \* ?bg_prompt=%
                <<63,97,61,49>>,                                 \* ?a=1
                <<63>> \o URL_PARAM \o <<61,72,105,38>> \o
                  <<99,111,110,116,105,110,117,101,61,104,116,116,112,115,58,47,47,97,99,99,111,117,110,116,115,46,103,111,111,103,108,101,46,99,111,109,47,115,105,103,110,105,110>>
                            \* ?bg_prompt=Hi&continue=https://accounts.google.com/signin
              } }

CarrierOff == [phase |-> "off", text |-> Null, prompt |-> Null, hrefs |-> <<>>]

\* a page load on a platform whose DOM and History calls do not throw
Init ==
    /\ href \in RunHrefs
    /\ carrier = CarrierOff
    /\ call = NoCall
    /\ loader = LoaderOff
    /\ doc \in Docs
    /\ pc = "start"
    /\ prompt = Null
    /\ attempt = 0
    /\ observer = FALSE
    /\ timer = "none"
    /\ log = <<>>
    /\ runNo = 1
    /\ faults = FALSE
    /\ hist \in Histories
    /\ msgs = <<>>

\* a page load on a platform whose guarded calls may throw
InitFault ==
    /\ href \in RunHrefs
    /\ carrier = CarrierOff
    /\ call = NoCall
    /\ loader = LoaderOff
    /\ doc \in Docs
    /\ pc = "start"
    /\ prompt = Null
    /\ attempt = 0
    /\ observer = FALSE
    /\ timer = "none"
    /\ log = <<>>
    /\ runNo = 1
    /\ faults = TRUE
    /\ hist \in Histories
    /\ msgs = <<>>

\* the run ends; the timer that brought it here has fired or been cleared
End(entries) ==
    /\ pc' = "done"
    /\ timer' = "none"
    /\ log' = log \o entries

\* cleanupURL() as it would be if it let the exception of
\* history.replaceState escape: main's promise rejects, the run has crashed
CleanupAndEnd_throws(entries) ==
    \E threw \in (IF faults THEN BOOLEAN ELSE {FALSE}) :
        /\ href' = IF threw THEN href ELSE cleanupURL(href)
        /\ hist' = IF threw THEN hist ELSE replaceState(hist, hist.state)
        /\ pc' = IF threw THEN "crashed" ELSE "done"
        /\ timer' = "none"
        /\ log' = log \o entries \o <<IF threw THEN "cleanup_failed" ELSE "cleanup">>

\* cleanupURL() called by main: history.replaceState takes the state it has
\* and the cleaned URL, or throws and the catch inside cleanupURL swallows it
CleanupAndEnd(entries) ==
    \E threw \in (IF faults THEN BOOLEAN ELSE {FALSE}) :
        /\ href' = IF threw THEN href ELSE cleanupURL(href)
        /\ hist' = IF threw THEN hist ELSE replaceState(hist, hist.state)
        /\ End(entries \o <<IF threw THEN "cleanup_failed" ELSE "cleanup">>)

\* the no-prompt exit as it would be if it cleaned the URL like the others
NoPromptExit_cleans == CleanupAndEnd(<<"no_prompt">>)

\* main: if (!prompt) return
NoPromptExit ==
    /\ End(<<"no_prompt">>)
    /\ UNCHANGED <<href, hist>>

\* the logged-out exit as it would be if it cleaned the URL like the others
LoggedOutExit_cleans == CleanupAndEnd(<<"logged_out">>)

\* main: if (isUserLoggedOut()) return, the URL left for a retry after login
LoggedOutExit ==
    /\ End(<<"logged_out">>)
    /\ UNCHANGED <<href, hist>>

\* main: if (!injected) return, inside the try block: no cleanupURL()
InjectFailedExit ==
    /\ End(<<"inject_failed">>)
    /\ UNCHANGED <<href, hist>>

\* main's catch block as it would be without its cleanupURL()
CatchExit_noCleanup(reason) ==
    /\ End(<<reason>>)
    /\ UNCHANGED <<href, hist>>

\* main's catch block: logError, then cleanupURL()
CatchExit(reason) == CleanupAndEnd(<<reason>>)

\* the end of main as it would be if the URL were cleaned only after a
\* successful submission
SubmittedExit_onlyOnSuccess(entries) ==
    IF entries[Len(entries)] = "click" THEN CleanupAndEnd(entries)
    ELSE End(entries) /\ UNCHANGED <<href, hist>>

\* main after clickSendButton() has returned, TRUE or FALSE: cleanupURL()
SubmittedExit(entries) == CleanupAndEnd(entries)

\* main() up to its first await: getPromptFromURL(), then delay(500)
Main ==
    /\ pc = "start"
    /\ LET p == getPromptFromURL(LocationSearch(href))
       IN  IF p.isNull
           THEN /\ NoPromptExit
                /\ UNCHANGED prompt
           ELSE /\ prompt' = p
                /\ pc' = "loginDelay"
                /\ timer' = "delay500"
                /\ UNCHANGED <<href, hist, log>>
    /\ UNCHANGED <<carrier, call, loader, doc, attempt, observer, runNo, faults, msgs>>

\* delay(500) elapsed: isUserLoggedOut(), then waitForInputField() up to
\* the next await
SessionCheck ==
    /\ pc = "loginDelay"
    /\ IF isUserLoggedOut(href, doc)
       THEN /\ LoggedOutExit
            /\ UNCHANGED observer
       ELSE LET w == waitForElement(doc)
            IN  /\ observer' = w.observer
                /\ IF w.settled = "resolved"
                   THEN \* main goes on to delay(BEFORE_INJECTION)
                        /\ pc' = "settle"
                        /\ timer' = "beforeInjection"
                        /\ log' = log \o <<"input_ready">>
                        /\ UNCHANGED <<href, hist>>
                   ELSE IF w.settled = "no"
                   THEN \* suspended on the promise of waitForElement
                        /\ pc' = "waiting"
                        /\ timer' = IF w.timer THEN "domReady" ELSE "none"
                        /\ log' = log \o <<"subscribed">>
                        /\ UNCHANGED <<href, hist>>
                   ELSE \* rejected at once: main's catch cleans up
                        CatchExit(w.error)
    /\ UNCHANGED <<carrier, call, loader, doc, prompt, attempt, runNo, faults, msgs>>

\* a batch of childList mutations under document.body is delivered: the
\* callback of every connected observer runs in the same task on the
\* document d as it is now; one that finds the element clears its timer,
\* disconnects and resolves, and the flow that awaited it goes on to
\* delay(BEFORE_INJECTION)
NotifyObservers(d) ==
    /\ IF observer
       THEN LET w == ObserverCallback(Pending(observer, timer = "domReady"), d)
            IN  /\ observer' = w.observer
                /\ pc' = IF w.settled = "resolved" THEN "settle" ELSE pc
                /\ timer' = IF w.settled = "resolved" THEN "beforeInjection" ELSE timer
                /\ log' = IF w.settled = "resolved" THEN log \o <<"input_ready">> ELSE log
       ELSE UNCHANGED <<pc, timer, observer, log>>
    /\ msgs' = [i \in DOMAIN msgs |->
                  IF msgs[i].observer
                  THEN LET w == ObserverCallback(Pending(TRUE, msgs[i].timer = "domReady"), d)
                       IN  IF w.settled = "resolved"
                           THEN [msgs[i] EXCEPT !.pc = "settle", !.observer = w.observer,
                                                !.timer = "beforeInjection"]
                           ELSE msgs[i]
                  ELSE msgs[i]]

\* the page inserts the node of the input element, editable (empty or with
\* a draft) or not yet editable; the observers are notified
InputInserted ==
    /\ \/ pc \in {"loginDelay", "waiting"}
       \/ \E i \in DOMAIN msgs : msgs[i].pc = "waiting"
    /\ doc.body /\ doc.input = "absent"
    /\ \/ \E x \in { <<>>, <<120>> } :
            doc' = [doc EXCEPT !.input = "present", !.text = x]
       \/ doc' = [doc EXCEPT !.input = "inert"]
    /\ NotifyObservers(doc')
    /\ UNCHANGED <<href, hist, carrier, call, loader, prompt, attempt, runNo, faults>>

\* the page sets contenteditable="true" on the node of the input, which now
\* matches the INPUT_FIELD selectors.  The observers observe document.body
\* with { childList, subtree } and no attributes: no callback runs.
InputAttributeChanged ==
    /\ \/ pc \in {"loginDelay", "waiting"}
       \/ \E i \in DOMAIN msgs : msgs[i].pc = "waiting"
    /\ doc.body /\ doc.input = "inert"
    /\ doc' = [doc EXCEPT !.input = "present"]
    /\ UNCHANGED <<href, hist, carrier, call, loader, pc, prompt, attempt, observer, timer, log, runNo, faults, msgs>>

\* the page changes the send button while a flow is suspended.  Inserting
\* or removing the button is a childList mutation and the observers are
\* notified; disabling or enabling it changes an attribute, and they are
\* not.
ButtonChanged ==
    /\ \/ pc \in {"loginDelay", "waiting", "settle", "afterInjection", "retry"}
       \/ \E i \in DOMAIN msgs : msgs[i].pc \in {"waiting", "settle", "afterInjection", "retry"}
    /\ doc.body
    /\ \E b \in ButtonStates \ {doc.button} :
          /\ doc' = [doc EXCEPT !.button = b]
          /\ IF doc.button = "absent" \/ b = "absent"
             THEN NotifyObservers(doc')
             ELSE UNCHANGED <<pc, observer, timer, log, msgs>>
    /\ UNCHANGED <<href, hist, carrier, call, loader, prompt, attempt, runNo, faults>>

\* the DOM_READY timer fires: observer.disconnect(), the wait rejects and
\* main's catch runs
WaitTimeout ==
    /\ pc = "waiting"
    /\ timer = "domReady"
    /\ LET w == TimeoutCallback(Pending(observer, TRUE))
       IN  /\ observer' = w.observer
           /\ CatchExit(w.error)
    /\ UNCHANGED <<carrier, call, loader, doc, prompt, attempt, runNo, faults, msgs>>

\* delay(BEFORE_INJECTION) elapsed: injectText(); on FALSE main returns,
\* on TRUE it goes on to delay(AFTER_INJECTION)
Inject ==
    /\ pc = "settle"
    /\ \E case \in InjectCases :
        LET r == injectText(doc.text, prompt.str, case)
        IN  /\ doc' = [doc EXCEPT !.text = r.text]
            /\ IF r.ok
               THEN /\ pc' = "afterInjection"
                    /\ timer' = "afterInjection"
                    /\ log' = log \o <<"injected">>
                    /\ UNCHANGED <<href, hist>>
               ELSE InjectFailedExit
    /\ UNCHANGED <<carrier, call, loader, prompt, attempt, observer, runNo, faults, msgs>>

\* the look-up as it would be if only the disabled property were tested,
\* aria-disabled being ignored
Lookup_ignoresAria(d) ==
    IF d.button = "absent" THEN "lookup:absent"
    ELSE IF d.button \in {"enabled", "ariaDisabled"} THEN "lookup:enabled"
    ELSE "lookup:disabled"

\* what findSendButton() and the disabled test see
Lookup(d) ==
    IF d.button = "absent" THEN "lookup:absent"
    ELSE IF d.button = "enabled" THEN "lookup:enabled"
    ELSE "lookup:disabled"

\* the error clickSendButton logs when the last attempt fails: which of the
\* two it is depends on what that attempt saw
ExhaustedError(d) ==
    IF Lookup(d) = "lookup:absent" THEN "error:not_found" ELSE "error:stayed_disabled"

\* clickSendButton(n) as it would be if it retried while n <= MAX_ATTEMPTS
ClickSendButton_oneMore(n) ==
    /\ attempt' = n
    /\ IF Lookup(doc) = "lookup:enabled"
       THEN SubmittedExit(<<Lookup(doc), "click">>)
       ELSE IF n <= MAX_ATTEMPTS
       THEN /\ pc' = "retry"
            /\ timer' = "retryDelay"
            /\ log' = log \o <<Lookup(doc)>>
            /\ UNCHANGED <<href, hist>>
       ELSE SubmittedExit(<<Lookup(doc), ExhaustedError(doc), "submit_failed">>)
    /\ UNCHANGED <<carrier, call, loader, doc, prompt, observer, runNo, faults, msgs>>

\* clickSendButton(n) as it would be if, its attempts used up, it started
\* again from the first
ClickSendButton_restarts(n) ==
    /\ IF Lookup(doc) = "lookup:enabled"
       THEN attempt' = n /\ SubmittedExit(<<Lookup(doc), "click">>)
       ELSE IF n < MAX_ATTEMPTS
       THEN /\ attempt' = n
            /\ pc' = "retry"
            /\ timer' = "retryDelay"
            /\ log' = log \o <<Lookup(doc)>>
            /\ UNCHANGED <<href, hist>>
       ELSE /\ attempt' = 1
            /\ pc' = "retry"
            /\ timer' = "retryDelay"
            /\ UNCHANGED <<href, hist, log>>
    /\ UNCHANGED <<carrier, call, loader, doc, prompt, observer, runNo, faults, msgs>>

\* clickSendButton(n) up to its await or its return, and, when it returns,
\* the rest of main
ClickSendButton(n) ==
    /\ attempt' = n
    /\ IF Lookup(doc) = "lookup:enabled"
       THEN SubmittedExit(<<Lookup(doc), "click">>)
       ELSE IF n < MAX_ATTEMPTS
       THEN /\ pc' = "retry"
            /\ timer' = "retryDelay"
            /\ log' = log \o <<Lookup(doc)>>
            /\ UNCHANGED <<href, hist>>
       ELSE SubmittedExit(<<Lookup(doc), ExhaustedError(doc), "submit_failed">>)
    /\ UNCHANGED <<carrier, call, loader, doc, prompt, observer, runNo, faults, msgs>>

\* the first attempt as it would be if clickSendButton gave up control,
\* with no timer set, before it looked for the button
Submit_yieldsFirst ==
    /\ pc = "afterInjection"
    /\ pc' = "retry"
    /\ timer' = "none"
    /\ UNCHANGED <<href, hist, carrier, call, loader, doc, prompt, attempt, observer, log, runNo, faults, msgs>>

\* the first attempt as it would be if main did not await the injection
\* step before it called clickSendButton()
Submit_early ==
    /\ pc \in {"settle", "afterInjection"}
    /\ ClickSendButton(1)

\* delay(AFTER_INJECTION) elapsed: the first attempt
Submit ==
    /\ pc = "afterInjection"
    /\ ClickSendButton(1)

\* delay(RETRY.DELAY) elapsed: the next attempt
Retry ==
    /\ pc = "retry"
    /\ ClickSendButton(attempt + 1)

\* the user reloads the page: the content script starts again on the URL
\* the earlier run left, in a fresh document; a reload replaces the entry
\* of the page and keeps its state
Reload ==
    /\ pc = "done"
    /\ runNo < MaxRuns
    /\ runNo' = runNo + 1
    /\ doc' \in Docs
    /\ pc' = "start"
    /\ prompt' = Null
    /\ attempt' = 0
    /\ log' = log \o <<"reload">>
    /\ UNCHANGED <<href, hist, carrier, call, loader, observer, timer, faults, msgs>>

Next ==
    \/ Main
    \/ SessionCheck
    \/ InputInserted
    \/ InputAttributeChanged
    \/ ButtonChanged
    \/ WaitTimeout
    \/ Inject
    \/ Submit
    \/ Retry
    \/ Reload

Spec == Init /\ [][Next]_vars

SpecFault == InitFault /\ [][Next]_vars

\* the step of WaitTimeout as it shows on pc: the armed DOM_READY timer
\* fires and the run, suspended on the wait, ends
TimeoutFires ==
    /\ pc = "waiting"
    /\ timer = "domReady"
    /\ pc' = "done"

\* the timers of the page fire: a wait whose timeout is armed does not stay
\* suspended for ever
SpecLive == Init /\ [][Next]_vars /\ WF_pc(TimeoutFires)

(***************************************************************************)
(* The message carrier: the chrome.runtime.onMessage listener and          *)
(* injectPromptFromMessage.  A message is what the listener can tell       *)
(* apart: null (or undefined), a primitive, or an object with an action    *)
(* and a prompt, each of which may be missing.                             *)
(***************************************************************************)
\* the messages a sender can send
Messages ==
    { [kind |-> "object", action |-> "injectPrompt", prompt |-> p] :
        p \in { Null, Str(<<>>), Str(<<89,111>>) } }         \* missing, "", "Yo"
    \cup { [kind |-> "object", action |-> a, prompt |-> Null] :
             a \in {"ping", "other", "undefined"} }
    \cup { [kind |-> "object", action |-> "other", prompt |-> Str(<<89,111>>)],
           [kind |-> "null", action |-> "undefined", prompt |-> Null],
           [kind |-> "string", action |-> "undefined", prompt |-> Null] }

\* what the listener does with a message: reading message.action of null
\* throws a TypeError; action 'injectPrompt' with a truthy prompt starts an
\* injection; action 'ping' is answered 'alive'; the rest 'unknown_action'
onMessage(m) ==
    IF m.kind = "null" THEN "throws"
    ELSE IF m.action = "injectPrompt" /\ ~m.prompt.isNull /\ m.prompt.str # <<>> THEN "inject"
    ELSE IF m.action = "ping" THEN "alive"
    ELSE "unknown_action"

\* the record of a message the listener is called with
Received(m) ==
    [message |-> m, pc |-> "received", attempt |-> 0, observer |-> FALSE,
     timer |-> "none", replies |-> <<>>, clicked |-> FALSE, error |-> "none"]

\* sendResponse(reply): the message is done with
Replied(r, reply) ==
    [r EXCEPT !.pc = "done", !.timer = "none", !.replies = Append(@, reply)]

\* the end of injectPromptFromMessage as it would be if it called
\* cleanupURL() the way main does
MsgEnd_cleans(i, r, reply) ==
    /\ msgs' = [msgs EXCEPT ![i] = Replied(r, reply)]
    /\ href' = cleanupURL(href)
    /\ hist' = replaceState(hist, hist.state)

\* injectPromptFromMessage returns and the listener's then() callback
\* sends {success}
MsgEnd(i, r, reply) ==
    /\ msgs' = [msgs EXCEPT ![i] = Replied(r, reply)]
    /\ UNCHANGED <<href, hist>>

\* a message arrives: the listener runs, and with it
\* injectPromptFromMessage up to its first suspension
Receive ==
    /\ pc \notin {"off", "start"}
    /\ Len(msgs) < MaxMsgs
    /\ \E m \in Messages :
        LET r == Received(m)
            w == waitForElement(doc)
        IN  msgs' = Append(msgs,
                IF onMessage(m) = "throws" THEN [r EXCEPT !.pc = "threw"]
                ELSE IF onMessage(m) = "inject"
                THEN IF w.settled = "resolved"
                     THEN [r EXCEPT !.pc = "settle", !.observer = w.observer,
                                    !.timer = "beforeInjection"]
                     ELSE IF w.settled = "no"
                     THEN [r EXCEPT !.pc = "waiting", !.observer = w.observer,
                                    !.timer = IF w.timer THEN "domReady" ELSE "none"]
                     ELSE Replied(r, "success:false")
                ELSE Replied(r, onMessage(m)))
    /\ UNCHANGED <<href, hist, carrier, call, loader, doc, pc, prompt, attempt, observer, timer, log, runNo, faults>>

\* the DOM_READY timer of a message-driven wait fires: the wait rejects,
\* the catch of injectPromptFromMessage returns false
MsgWaitTimeout ==
    /\ \E i \in DOMAIN msgs :
        /\ msgs[i].pc = "waiting"
        /\ msgs[i].timer = "domReady"
        /\ LET w == TimeoutCallback(Pending(msgs[i].observer, TRUE))
           IN  MsgEnd(i, [msgs[i] EXCEPT !.observer = w.observer], "success:false")
    /\ UNCHANGED <<carrier, call, loader, doc, pc, prompt, attempt, observer, timer, log, runNo, faults>>

\* delay(BEFORE_INJECTION) elapsed: injectText(inputElement, prompt)
MsgInject ==
    /\ \E i \in DOMAIN msgs :
        /\ msgs[i].pc = "settle"
        /\ \E case \in InjectCases :
            LET r == injectText(doc.text, msgs[i].message.prompt.str, case)
            IN  /\ doc' = [doc EXCEPT !.text = r.text]
                /\ IF r.ok
                   THEN /\ msgs' = [msgs EXCEPT ![i].pc = "afterInjection",
                                                ![i].timer = "afterInjection"]
                        /\ UNCHANGED <<href, hist>>
                   ELSE MsgEnd(i, msgs[i], "success:false")
    /\ UNCHANGED <<carrier, call, loader, pc, prompt, attempt, observer, timer, log, runNo, faults>>

\* clickSendButton(n) of a message-driven injection as it would be if
\* injectPromptFromMessage returned the result of clickSendButton
MsgClickSendButton_reportsSubmit(i, n) ==
    /\ IF Lookup(doc) = "lookup:enabled"
       THEN MsgEnd(i, [msgs[i] EXCEPT !.attempt = n, !.clicked = TRUE], "success:true")
       ELSE IF n < MAX_ATTEMPTS
       THEN /\ msgs' = [msgs EXCEPT ![i].attempt = n, ![i].pc = "retry",
                                    ![i].timer = "retryDelay"]
            /\ UNCHANGED <<href, hist>>
       ELSE MsgEnd(i, [msgs[i] EXCEPT !.attempt = n, !.error = ExhaustedError(doc)],
                   "success:false")
    /\ UNCHANGED <<carrier, call, loader, doc, pc, prompt, attempt, observer, timer, log, runNo, faults>>

\* clickSendButton(n) of a message-driven injection; its result is dropped
\* and injectPromptFromMessage returns true
MsgClickSendButton(i, n) ==
    /\ IF Lookup(doc) = "lookup:enabled"
       THEN MsgEnd(i, [msgs[i] EXCEPT !.attempt = n, !.clicked = TRUE], "success:true")
       ELSE IF n < MAX_ATTEMPTS
       THEN /\ msgs' = [msgs EXCEPT ![i].attempt = n, ![i].pc = "retry",
                                    ![i].timer = "retryDelay"]
            /\ UNCHANGED <<href, hist>>
       ELSE MsgEnd(i, [msgs[i] EXCEPT !.attempt = n, !.error = ExhaustedError(doc)],
                   "success:true")
    /\ UNCHANGED <<carrier, call, loader, doc, pc, prompt, attempt, observer, timer, log, runNo, faults>>

\* delay(AFTER_INJECTION) elapsed: the first attempt
MsgSubmit ==
    \E i \in DOMAIN msgs :
        /\ msgs[i].pc = "afterInjection"
        /\ MsgClickSendButton(i, 1)

\* delay(RETRY.DELAY) elapsed: the next attempt
MsgRetry ==
    \E i \in DOMAIN msgs :
        /\ msgs[i].pc = "retry"
        /\ MsgClickSendButton(i, msgs[i].attempt + 1)

\* the URLs of the pages messages are followed on: with a prompt, and with
\* a prompt and a login-page pattern
MsgHrefs ==
    { GEMINI_BASE_URL \o q :
        q \in { <<63>> \o URL_PARAM \o <<61,72,105>>,
                <<63>> \o URL_PARAM \o <<61,72,105,38>> \o
                  <<99,111,110,116,105,110,117,101,61,104,116,116,112,115,58,47,47,97,99,99,111,117,110,116,115,46,103,111,111,103,108,101,46,99,111,109,47,115,105,103,110,105,110>>
              } }

\* a page load after which messages arrive
InitMsg ==
    /\ href \in MsgHrefs
    /\ carrier = CarrierOff
    /\ call = NoCall
    /\ loader = LoaderOff
    /\ doc \in Docs
    /\ pc = "start"
    /\ prompt = Null
    /\ attempt = 0
    /\ observer = FALSE
    /\ timer = "none"
    /\ log = <<>>
    /\ runNo = 1
    /\ faults = TRUE
    /\ hist = [length |-> 2, state |-> "app"]
    /\ msgs = <<>>

NextMsg ==
    \/ Main
    \/ SessionCheck
    \/ InputInserted
    \/ InputAttributeChanged
    \/ ButtonChanged
    \/ WaitTimeout
    \/ Inject
    \/ Submit
    \/ Retry
    \/ Receive
    \/ MsgWaitTimeout
    \/ MsgInject
    \/ MsgSubmit
    \/ MsgRetry

SpecMsg == InitMsg /\ [][NextMsg]_vars

\* a step of the URL-driven run as it shows on pc and attempt: the script
\* starts, a delay elapses, the wait settles
MainStep ==
    /\ pc \in {"start", "loginDelay", "waiting", "settle", "afterInjection", "retry"}
    /\ pc' \in {"loginDelay", "waiting", "settle", "afterInjection", "retry", "done"}
    /\ attempt' \in 0..MAX_ATTEMPTS

\* the timers of the page fire and started scripts run: no flow that is
\* suspended on a timer stays suspended for ever.  The page is not bound to
\* anything: the input and the send button appear, change, or never do.
SpecMsgLive ==
    /\ InitMsg /\ [][NextMsg]_vars
    /\ WF_<<pc, attempt>>(MainStep)
    /\ WF_vars(MsgWaitTimeout)
    /\ WF_vars(MsgInject)
    /\ WF_vars(MsgSubmit)
    /\ WF_vars(MsgRetry)

(***************************************************************************)
(* Locator Resolver: queryWithSelectors.  A document is its elements in    *)
(* document order, each element the set of the selectors it matches; an    *)
(* element is named by its position, 0 being null.                         *)
(***************************************************************************)
\* doc.querySelector(selector): the first element in document order that
\* matches, or null
querySelector(d, selector) ==
    IF \E e \in 1..Len(d.elems) : selector \in d.elems[e]
    THEN CHOOSE e \in 1..Len(d.elems) :
            /\ selector \in d.elems[e]
            /\ \A f \in 1..(e - 1) : selector \notin d.elems[f]
    ELSE 0

\* queryWithSelectors as it would be if it returned the first element in
\* document order that matches any of the selectors
queryWithSelectors_documentOrder(selectors, d) ==
    IF d.isNull THEN 0
    ELSE IF \E e \in 1..Len(d.elems), k \in 1..Len(selectors) : selectors[k] \in d.elems[e]
    THEN CHOOSE e \in 1..Len(d.elems) :
            /\ \E k \in 1..Len(selectors) : selectors[k] \in d.elems[e]
            /\ \A f \in 1..(e - 1) : \A k \in 1..Len(selectors) : selectors[k] \notin d.elems[f]
    ELSE 0

\* the loop of queryWithSelectors over the selectors from the k-th on
RECURSIVE TrySelectors(_, _, _)
TrySelectors(selectors, d, k) ==
    IF k > Len(selectors) THEN 0
    ELSE IF querySelector(d, selectors[k]) # 0 THEN querySelector(d, selectors[k])
    ELSE TrySelectors(selectors, d, k + 1)

\* queryWithSelectors(selectors, doc): null without a document; else the
\* result of the first selector, in list order, whose querySelector is not
\* null; else null
queryWithSelectors(selectors, d) ==
    IF d.isNull THEN 0 ELSE TrySelectors(selectors, d, 1)

(***************************************************************************)
(* Functions followed on their own: one call, its arguments drawn from     *)
(* bounded sets, and its result.                                           *)
(***************************************************************************)
\* the variables a call leaves alone
callFrame == <<href, carrier, doc, pc, prompt, attempt, observer, timer, log, runNo, faults, hist, msgs, loader>>

\* the state of the page when only a call is followed
CallOff ==
    /\ href = <<>>
    /\ carrier = CarrierOff
    /\ loader = LoaderOff
    /\ pc = "off"
    /\ prompt = Null
    /\ attempt = 0
    /\ observer = FALSE
    /\ timer = "none"
    /\ log = <<>>
    /\ runNo = 0
    /\ faults = FALSE
    /\ hist = [length |-> 1, state |-> "null"]
    /\ msgs = <<>>

\* a call that has not returned; result holds the value returned once it has
Called(fn, args) == [fn |-> fn, args |-> args, result |-> <<>>, returned |-> FALSE]

\* the URLs the Session Guard is called on: the application, login pages of
\* each configured pattern, the application with a login URL in its query,
\* the authentication domain off its login pages, another site
GuardHrefs ==
    {
      \* https://gemini.google.com/app
      <<104,116,116,112,115,58,47,47,103,101,109,105,110,105,46,103,111,111,103,108,101,46,99,111,109,47,97,112,112>>,
      \* https://gemini.google.com/app?bg_prompt=Hi
      <<104,116,116,112,115,58,47,47,103,101,109,105,110,105,46,103,111,111,103,108,101,46,99,111,109,47,97,112,112,63,98,103,95,112,114,111,109,112,116,61,72,105>>,
      \* https://accounts.google.com/signin/v2/identifier
      <<104,116,116,112,115,58,47,47,97,99,99,111,117,110,116,115,46,103,111,111,103,108,101,46,99,111,109,47,115,105,103,110,105,110,47,118,50,47,105,100,101,110,116,105,102,105,101,114>>,
      \* https://accounts.google.com/v3/signin/identifier
      <<104,116,116,112,115,58,47,47,97,99,99,111,117,110,116,115,46,103,111,111,103,108,101,46,99,111,109,47,118,51,47,115,105,103,110,105,110,47,105,100,101,110,116,105,102,105,101,114>>,
      \* https://accounts.google.com/ServiceLogin?continue=https://gemini.google.com/app
      <<104,116,116,112,115,58,47,47,97,99,99,111,117,110,116,115,46,103,111,111,103,108,101,46,99,111,109,47,83,101,114,118,105,99,101,76,111,103,105,110,63,99,111,110,116,105,110,117,101,61,104,116,116,112,115,58,47,47,103,101,109,105,110,105,46,103,111,111,103,108,101,46,99,111,109,47,97,112,112>>,
      \* https://gemini.google.com/app?continue=https://accounts.google.com/signin
      <<104,116,116,112,115,58,47,47,103,101,109,105,110,105,46,103,111,111,103,108,101,46,99,111,109,47,97,112,112,63,99,111,110,116,105,110,117,101,61,104,116,116,112,115,58,47,47,97,99,99,111,117,110,116,115,46,103,111,111,103,108,101,46,99,111,109,47,115,105,103,110,105,110>>,
      \* https://accounts.google.com/AccountChooser
      <<104,116,116,112,115,58,47,47,97,99,99,111,117,110,116,115,46,103,111,111,103,108,101,46,99,111,109,47,65,99,99,111,117,110,116,67,104,111,111,115,101,114>>,
      \* https://example.com/
      <<104,116,116,112,115,58,47,47,101,120,97,109,112,108,101,46,99,111,109,47>>
    }

\* the documents the Session Guard is called on: those of a page load, with
\* or without a link to the authentication domain (the profile menu)
GuardDocs ==
    { [body |-> d.body, input |-> d.input, text |-> d.text, button |-> d.button,
       authLink |-> l] : d \in Docs, l \in BOOLEAN }

\* the document of the page when the call is given its own
NoDoc == [body |-> TRUE, input |-> "absent", text |-> <<>>, button |-> "absent"]

\* the selectors of a list, and the lists queryWithSelectors is called with
SelectorNames == {"a", "b", "c"}

SelectorLists == UNION { [1..n -> SelectorNames] : n \in 0..MaxSelectors }

\* the documents queryWithSelectors searches: up to MaxElems elements, each
\* matching any of the selectors or none; and no document
QueryDocs ==
    { [isNull |-> FALSE, elems |-> es] :
        es \in UNION { [1..n -> SUBSET SelectorNames] : n \in 0..MaxElems } }
    \cup { [isNull |-> TRUE, elems |-> <<>>] }

\* queryWithSelectors(selectors, doc) is called on the document and returns
CallQuery ==
    /\ call.fn = "queryWithSelectors"
    /\ ~call.returned
    /\ call' = [call EXCEPT !.result = <<queryWithSelectors(call.args[1], doc)>>,
                            !.returned = TRUE]
    /\ UNCHANGED callFrame

\* the texts entered in the omnibox: nothing, white space only, a prompt,
\* a prompt in white space, a prompt with a space and an ampersand
InputTexts ==
    { <<>>, <<32>>, <<9, 32>>, <<72>>, <<32, 72, 105, 32>>, <<72, 32, 38>> }

\* the dispositions the omnibox gives, and one it does not
Dispositions == {"currentTab", "newForegroundTab", "newBackgroundTab", "other"}

\* what the browser does at a navigation
TabsEnvs ==
    { [api |-> TRUE, activeTab |-> TRUE, fails |-> "none"],
      [api |-> TRUE, activeTab |-> FALSE, fails |-> "none"],
      [api |-> TRUE, activeTab |-> TRUE, fails |-> "query"],
      [api |-> TRUE, activeTab |-> TRUE, fails |-> "update"],
      [api |-> TRUE, activeTab |-> FALSE, fails |-> "create"],
      [api |-> FALSE, activeTab |-> FALSE, fails |-> "none"] }

\* handleInputEntered(text, disposition) is called and settles
CallInput ==
    /\ call.fn = "handleInputEntered"
    /\ ~call.returned
    /\ call' = [call EXCEPT !.result = <<handleInputEntered(call.args[1], call.args[2],
                                                            call.args[3], call.args[4])>>,
                            !.returned = TRUE]
    /\ UNCHANGED callFrame

\* the texts injectText is called with, and the contents the element has
\* before: empty, a draft, the text itself
InjectTexts == { <<72,105>>, <<120>> }

InjectOlds == { <<>>, <<120>>, <<72,105>> }

\* what the platform does under a call of injectText and of the fallback
AllInjectCases == {"primary", "fallback", "primaryThrows", "fallbackThrowsEarly", "fallbackThrowsLate"}

FallbackCases == {"fallback", "fallbackThrowsEarly", "fallbackThrowsLate"}

\* injectText(inputElement, text) is called and returns
CallInject ==
    /\ call.fn = "injectText"
    /\ ~call.returned
    /\ call' = [call EXCEPT !.result = <<injectText(call.args[1], call.args[2], call.args[3])>>,
                            !.returned = TRUE]
    /\ UNCHANGED callFrame

\* injectTextWithInputEvent(inputElement, text) is called and returns
CallFallback ==
    /\ call.fn = "injectTextWithInputEvent"
    /\ ~call.returned
    /\ call' = [call EXCEPT !.result = <<injectTextWithInputEvent(call.args[1], call.args[2])>>,
                            !.returned = TRUE]
    /\ UNCHANGED callFrame

\* isUserLoggedOut(window, document) is called and returns
CallGuard ==
    /\ call.fn = "isUserLoggedOut"
    /\ ~call.returned
    /\ call' = [call EXCEPT !.result = <<isUserLoggedOut(call.args[1], call.args[2])>>,
                            !.returned = TRUE]
    /\ UNCHANGED callFrame

InitCall ==
    /\ CallOff
    /\ \/ /\ doc = NoDoc
          /\ \E h \in GuardHrefs, d \in GuardDocs :
                call = Called("isUserLoggedOut", <<h, d>>)
       \/ /\ doc = NoDoc
          /\ \E old \in InjectOlds, text \in InjectTexts, case \in AllInjectCases :
                call = Called("injectText", <<old, text, case>>)
       \/ /\ doc = NoDoc
          /\ \E text \in InjectTexts, case \in FallbackCases :
                call = Called("injectTextWithInputEvent", <<text, case>>)
       \/ /\ doc = NoDoc
          /\ \E text \in InputTexts, disposition \in Dispositions, env \in TabsEnvs,
                envFallback \in TabsEnvs :
                call = Called("handleInputEntered", <<text, disposition, env, envFallback>>)
       \/ /\ doc \in QueryDocs
          /\ \E selectors \in SelectorLists :
                call = Called("queryWithSelectors", <<selectors>>)

NextCall ==
    \/ CallGuard
    \/ CallInject
    \/ CallFallback
    \/ CallQuery
    \/ CallInput

SpecCall == InitCall /\ [][NextCall]_vars

(***************************************************************************)
(* The feature loader in the page: the listener is registered, the         *)
(* initialization is scheduled, the options page saves settings.           *)
(***************************************************************************)
\* the variables the feature loader leaves alone
loaderFrame == <<href, carrier, doc, pc, prompt, attempt, observer, timer, log, runNo, faults, hist, msgs>>

\* the page as far as the loader is concerned
LoaderPage ==
    /\ href = <<>>
    /\ carrier = CarrierOff
    /\ call = NoCall
    /\ doc = NoDoc
    /\ pc = "off"
    /\ prompt = Null
    /\ attempt = 0
    /\ observer = FALSE
    /\ timer = "none"
    /\ log = <<>>
    /\ runNo = 0
    /\ faults = FALSE
    /\ hist = [length |-> 1, state |-> "null"]
    /\ msgs = <<>>

\* a call that has returned
Returned(fn, args) == [fn |-> fn, args |-> args, result |-> <<>>, returned |-> TRUE]

\* the script has run: onChanged listener added, setTimeout(initializeFeatures)
InitLoader ==
    /\ LoaderPage
    /\ \E a \in Avails, v \in SettingsValues \cup {NoValue} :
            loader = [LoaderOff EXCEPT !.pc = "scheduled", !.avail = a, !.stored = v]

\* the timer fires: initializeFeatures() calls loadSettings(), which calls
\* chrome.storage.sync.get
InitializeFeatures ==
    /\ loader.pc = "scheduled"
    /\ loader' = [loader EXCEPT !.pc = "loading", !.step = <<>>]
    /\ call' = Returned("initializeFeatures", <<>>)
    /\ UNCHANGED loaderFrame

\* the browser reads the stored value for the get
StorageRead ==
    /\ loader.pc = "loading"
    /\ loader' = [loader EXCEPT !.pc = "read", !.snapshot = loader.stored, !.step = <<>>]
    /\ call' = NoCall
    /\ UNCHANGED loaderFrame

\* the callback of the get runs in the page with the value read
SettingsLoaded ==
    /\ loader.pc = "read"
    /\ \E ok \in Outcomes(loader) :
            loader' = [SettingsLoadedCallback(loader, OrDefaults(loader.snapshot), ok)
                         EXCEPT !.pc = "ready"]
    /\ call' = Returned("loadSettings.then", <<loader.snapshot>>)
    /\ UNCHANGED loaderFrame

\* the options page saves other settings: the value is stored and a change
\* event is on its way to the page
OptionsSave ==
    /\ Len(loader.events) < MaxEvents
    /\ \E v \in SettingsValues \cup {NoValue} :
            /\ v # loader.stored
            /\ loader' = [loader EXCEPT !.stored = v, !.step = <<>>,
                                        !.events = Append(@, Change("sync", TRUE, v))]
    /\ call' = NoCall
    /\ UNCHANGED loaderFrame

\* something else is stored: another key, or another storage area
OtherChange ==
    /\ Len(loader.events) < MaxEvents
    /\ \E c \in { Change("sync", FALSE, NoValue),
                   Change("local", TRUE, [DEFAULT_SETTINGS EXCEPT !["keyboardShortcuts"] = "false"]) } :
            loader' = [loader EXCEPT !.step = <<>>, !.events = Append(@, c)]
    /\ call' = NoCall
    /\ UNCHANGED loaderFrame

\* a change event is delivered: handleSettingsChange(changes, areaName)
DeliverChange ==
    /\ loader.events # <<>>
    /\ LET c == Head(loader.events)
       IN  /\ \E ok \in Outcomes(loader) :
                 loader' = [handleSettingsChange(loader, c, c.areaName, ok)
                              EXCEPT !.events = Tail(loader.events)]
           /\ call' = Returned("handleSettingsChange", <<c>>)
    /\ UNCHANGED loaderFrame

NextLoader ==
    \/ InitializeFeatures
    \/ StorageRead
    \/ SettingsLoaded
    \/ OptionsSave
    \/ OtherChange
    \/ DeliverChange

SpecLoader == InitLoader /\ [][NextLoader]_vars

(***************************************************************************)
(* The functions the feature loader exports, called in any order           *)
(***************************************************************************)
InitLoaderApi ==
    /\ LoaderPage
    /\ \E a \in Avails : loader = [LoaderOff EXCEPT !.pc = "exported", !.avail = a]

\* initExportMarkdown() / initKeyboardShortcuts() / initWiderChat()
ApiInit ==
    /\ loader.pc = "exported"
    /\ \E f \in Features, ok \in Outcomes(loader) :
            /\ loader' = initFeature([loader EXCEPT !.step = <<>>], f, ok)
            /\ call' = Returned("init", <<f>>)
    /\ UNCHANGED loaderFrame

\* destroyKeyboardShortcuts() / destroyWiderChat()
ApiDestroy ==
    /\ loader.pc = "exported"
    /\ \E f \in Destroyable, ok \in Outcomes(loader) :
            /\ loader' = destroyFeature([loader EXCEPT !.step = <<>>], f, ok)
            /\ call' = Returned("destroy", <<f>>)
    /\ UNCHANGED loaderFrame

\* initializeFeatures() through to the end of its callback, the storage
\* answering with any value
ApiInitializeFeatures ==
    /\ loader.pc = "exported"
    /\ \E v \in SettingsValues \cup {NoValue}, ok \in Outcomes(loader) :
            /\ loader' = SettingsLoadedCallback(loader, OrDefaults(v), ok)
            /\ call' = Returned("initializeFeatures", <<v>>)
    /\ UNCHANGED loaderFrame

\* handleSettingsChange(changes, areaName)
ApiHandleSettingsChange ==
    /\ loader.pc = "exported"
    /\ \E c \in Changes, ok \in Outcomes(loader) :
            /\ loader' = handleSettingsChange(loader, c, c.areaName, ok)
            /\ call' = Returned("handleSettingsChange", <<c>>)
    /\ UNCHANGED loaderFrame

NextLoaderApi ==
    \/ ApiInit
    \/ ApiDestroy
    \/ ApiInitializeFeatures
    \/ ApiHandleSettingsChange

SpecLoaderApi == InitLoaderApi /\ [][NextLoaderApi]_vars

(***************************************************************************)
(* Claims about the URL-driven run                                         *)
(***************************************************************************)
\* does entry e occur in l
Has(l, e) == \E i \in 1..Len(l) : l[i] = e

\* how often entry e occurs in l
Count(l, e) == Cardinality({ i \in 1..Len(l) : l[i] = e })

\* the log cut into runs, one per page load
Runs == Split(log, "reload")

\* the log of the current run
RunLog == Runs[Len(Runs)]

\* the first thing clickSendButton saw in run l, "none" if it never looked
FirstLookup(l) ==
    LET looks == SelectSeq(l, LAMBDA e : e \in {"lookup:absent", "lookup:disabled", "lookup:enabled"})
    IN  IF looks = <<>> THEN "none" ELSE looks[1]

\* has cleanupURL been called in run l
Cleaned(l) == Has(l, "cleanup") \/ Has(l, "cleanup_failed")

\* C1: if injectText reports failure after the input element was found, the
\* run ends with no submit click and with the prompt parameter removed from
\* the URL.  (Checked under SpecFault: injectText fails only when a platform
\* call throws.)
C1_InjectFailureCleansUp ==
    (pc = "done" /\ Has(RunLog, "inject_failed"))
        => (~Has(RunLog, "click") /\ ~HasPromptParam(href))

\* C2: when the Session Guard classifies the page as logged-out, the run
\* ends at once: no wait for the input (no subscription, no timer), no
\* injection, no click and no cleanup, and the URL still carries the prompt
\* parameter.
C2_LoggedOutKeepsUrl ==
    [][ (pc = "loginDelay" /\ pc' # "loginDelay" /\ isUserLoggedOut(href, doc))
          => /\ pc' = "done"
             /\ href' = href
             /\ HasPromptParam(href')
             /\ doc' = doc
             /\ observer' = FALSE /\ timer' = "none"
             /\ log' = log \o <<"logged_out">> ]_vars

\* C2 witness: a run has ended logged-out with an input element in the page
C2_Witness ==
    /\ pc = "done"
    /\ RunLog = <<"logged_out">>
    /\ doc.input = "present"
    /\ HasPromptParam(href)

C4_CleanupLast ==
    /\ (pc = "done" /\ Has(RunLog, "injected"))
         => /\ Cleaned(RunLog)
            /\ Count(RunLog, "cleanup") + Count(RunLog, "cleanup_failed") = 1
            /\ RunLog[Len(RunLog)] \in {"cleanup", "cleanup_failed"}
            /\ RunLog[Len(RunLog) - 1] \in {"click", "submit_failed"}
    /\ pc # "done" => ~Cleaned(RunLog)

\* C4 witness: a run has ended cleaned up after exhausting its submit attempts
C4_Witness ==
    /\ pc = "done"
    /\ Has(RunLog, "injected")
    /\ Has(RunLog, "submit_failed")
    /\ RunLog[Len(RunLog)] = "cleanup"

C7_NoDuplicateOnReload ==
    /\ (pc = "done" /\ Has(RunLog, "injected") /\ Has(RunLog, "cleanup"))
         => ~HasPromptParam(href)
    /\ \A i \in 2..Len(Runs) :
         (Has(Runs[i - 1], "injected") /\ Has(Runs[i - 1], "cleanup"))
            => Runs[i] \in { <<>>, <<"no_prompt">> }

\* C7 witness: a second run has ended after a first run that injected,
\* clicked and cleaned up
C7_Witness ==
    /\ Len(Runs) = 2
    /\ Has(Runs[1], "click")
    /\ Has(Runs[1], "cleanup")
    /\ pc = "done"

(***************************************************************************)
(* Claims about the URL carrier, checked under SpecUrl                     *)
(***************************************************************************)
\* C8: for every non-empty prompt s, getPromptFromURL on the URL produced by
\* buildGeminiUrl(s) returns exactly s.
C8_RoundTrip ==
    (carrier.phase = "extracted" /\ ~carrier.text.isNull)
        => carrier.prompt = carrier.text

\* C9: applying cleanupURL twice yields the same URL as applying it once,
\* and cleanup of a URL that has no prompt parameter leaves the URL as it was.
C9_CleanupIdempotent ==
    /\ Len(carrier.hrefs) = 3 => carrier.hrefs[3] = carrier.hrefs[2]
    /\ (Len(carrier.hrefs) >= 2 /\ ~HasPromptParam(carrier.hrefs[1]))
            => carrier.hrefs[2] = carrier.hrefs[1]

\* C10: cleanupURL removes only the prompt parameter: the other query
\* parameters (names and values, in order), the path and the fragment are
\* the same after cleanup as before, wherever the prompt parameter stands.
C10_CleanupFrame ==
    Len(carrier.hrefs) >= 2 =>
        LET before == carrier.hrefs[1]
            after == carrier.hrefs[2]
        IN  /\ ParseURL(after).base = ParseURL(before).base
            /\ ParseURL(after).hash = ParseURL(before).hash
            /\ ParamsOf(after) = SelectPairs(ParamsOf(before), LAMBDA p : p[1] # URL_PARAM)

\* C10 witness: a URL with a fragment whose prompt parameter stands before
\* another parameter has been cleaned
C10_Witness ==
    /\ Len(carrier.hrefs) >= 2
    /\ ~ParseURL(carrier.hrefs[1]).hash.isNull
    /\ Len(ParamsOf(carrier.hrefs[1])) >= 2
    /\ ParamsOf(carrier.hrefs[1])[1][1] = URL_PARAM
    /\ ParamsOf(carrier.hrefs[2]) # <<>>

\* the parameters of a URL that are named as the prompt parameter
Named(h) == SelectPairs(ParamsOf(h), LAMBDA p : p[1] = URL_PARAM)

C11_ReplaceInPlace ==
    [][ (log' # log /\ log'[Len(log')] \in {"cleanup", "cleanup_failed"})
          => /\ hist'.length = hist.length
             /\ hist'.state = hist.state
             /\ runNo' = runNo
             /\ doc' = doc ]_vars

\* C11 witness: cleanupURL has rewritten the URL of a second history entry
\* that holds a state of the host application
C11_Witness ==
    /\ pc = "done"
    /\ RunLog[Len(RunLog)] = "cleanup"
    /\ hist = [length |-> 2, state |-> "app"]
    /\ ParamsOf(href) # <<>>
    /\ ~HasPromptParam(href)

\* C13: a step in which history.replaceState throws inside cleanupURL ends
\* the run normally, and the URL, prompt parameter included, and the
\* history are as they were.
C13_CleanupFailureSwallowed ==
    [][ (log' # log /\ log'[Len(log')] = "cleanup_failed")
          => /\ pc' = "done"
             /\ href' = href
             /\ HasPromptParam(href')
             /\ hist' = hist ]_vars

\* C13 witness: a run that had injected and clicked has ended with a failed
\* cleanup, the prompt parameter still in the URL
C13_Witness ==
    /\ pc = "done"
    /\ Has(RunLog, "click")
    /\ RunLog[Len(RunLog)] = "cleanup_failed"
    /\ HasPromptParam(href)

(***************************************************************************)
(* Claims about the message carrier, checked under SpecMsg                 *)
(***************************************************************************)
\* is the listener through with message record r: it has replied after the
\* injection, or returned, or thrown
Finished(r) == r.pc \in {"done", "threw"}

\* is m an injectPrompt message with a non-empty prompt
IsInjectPrompt(m) ==
    m.kind = "object" /\ m.action = "injectPrompt" /\ ~m.prompt.isNull /\ m.prompt.str # <<>>

\* C14: every message the listener is called with gets exactly one reply:
\* never two, and one once the listener and the injection it started are
\* through with it.
C14_ExactlyOneReply ==
    \A i \in DOMAIN msgs :
        /\ Len(msgs[i].replies) <= 1
        /\ Finished(msgs[i]) => Len(msgs[i].replies) = 1

\* C15: an injectPrompt message with a non-empty prompt is answered with
\* {success: true} or {success: false}; a ping with {status: 'alive'};
\* every other message with {status: 'unknown_action'}, and only an
\* injectPrompt message with a non-empty prompt starts an injection.
C15_Dispatch ==
    \A i \in DOMAIN msgs :
        LET m == msgs[i].message
        IN  /\ ~IsInjectPrompt(m) => Finished(msgs[i])
            /\ Finished(msgs[i]) =>
                  IF IsInjectPrompt(m)
                  THEN msgs[i].replies \in { <<"success:true">>, <<"success:false">> }
                  ELSE IF m.kind = "object" /\ m.action = "ping"
                  THEN msgs[i].replies = <<"alive">>
                  ELSE msgs[i].replies = <<"unknown_action">>

\* C16: a step of a message-driven injection (one in which the URL-driven
\* run does nothing) leaves the URL and the history as they were; how the
\* injection starts depends on the document only, not on the URL (no Session
\* Guard); and the text it injects is the prompt of the message, not that of
\* the URL.
C16_MessageFlowLeavesUrl ==
    [][ /\ (msgs' # msgs /\ pc' = pc /\ attempt' = attempt /\ log' = log)
            => (href' = href /\ hist' = hist)
        /\ (Len(msgs') = Len(msgs) + 1 /\ IsInjectPrompt(msgs'[Len(msgs')].message))
            => msgs'[Len(msgs')].pc =
                 (IF doc.input = "present" THEN "settle"
                  ELSE IF doc.body THEN "waiting" ELSE "done")
        /\ \A i \in DOMAIN msgs :
              (msgs[i].pc = "settle" /\ msgs'[i].pc = "afterInjection")
                 => doc'.text = msgs[i].message.prompt.str ]_vars

\* C16 witness: on a login-page URL that carries a prompt, a message-driven
\* injection has injected its own prompt, clicked and replied, and the URL
\* still carries the parameter
C16_Witness ==
    /\ msgs # <<>>
    /\ msgs[1].replies = <<"success:true">>
    /\ msgs[1].clicked
    /\ isUserLoggedOut(href, doc)
    /\ HasPromptParam(href)
    /\ doc.text = <<89,111>>

\* C17: when the input element is present at the call, waitForElement
\* resolves at once: the flow that called it goes on to its next delay with
\* no observer connected and no timeout timer armed, in the URL-driven run
\* and in a message-driven injection.
C17_ImmediateResolve ==
    [][ /\ (pc = "loginDelay" /\ pc' # pc /\ ~isUserLoggedOut(href, doc)
                /\ doc.input = "present")
            => /\ pc' = "settle"
               /\ ~observer'
               /\ timer' = "beforeInjection"
               /\ log' = log \o <<"input_ready">>
        /\ (Len(msgs') = Len(msgs) + 1 /\ IsInjectPrompt(msgs'[Len(msgs')].message)
                /\ doc.input = "present")
            => /\ msgs'[Len(msgs')].pc = "settle"
               /\ ~msgs'[Len(msgs')].observer
               /\ msgs'[Len(msgs')].timer = "beforeInjection" ]_vars

\* C17 witness: the run and a message-driven injection have both found the
\* element at the call and stand before their injection, nothing subscribed
C17_Witness ==
    /\ pc = "settle"
    /\ RunLog = <<"input_ready">>
    /\ msgs # <<>>
    /\ msgs[1].pc = "settle"
    /\ ~observer /\ ~msgs[1].observer

\* C19: a wait that has settled is torn down: outside a pending wait no
\* observer is connected and no timeout timer is armed, in the run and in
\* every message-driven injection; and the wait of a run settles once.
C19_TeardownOnSettle ==
    /\ pc # "waiting" => (~observer /\ timer # "domReady")
    /\ \A i \in DOMAIN msgs :
          msgs[i].pc # "waiting" => (~msgs[i].observer /\ msgs[i].timer # "domReady")
    /\ Count(RunLog, "input_ready") + Count(RunLog, "timeout") + Count(RunLog, "no_body") <= 1

\* C19 witness: the wait of the run has been rejected by its timeout, and
\* later the wait of a message-driven injection resolved on a match
C19_Witness ==
    /\ pc = "done"
    /\ Has(RunLog, "timeout")
    /\ msgs # <<>>
    /\ msgs[1].pc = "settle"
    /\ doc.input = "present"

\* the observers connected on the page
Subscriptions ==
    (IF observer THEN 1 ELSE 0) + Cardinality({ i \in DOMAIN msgs : msgs[i].observer })

\* C20: at most one Readiness Waiter subscription is active at any time.
C20_OneSubscription == Subscriptions <= 1

(***************************************************************************)
(* Claim about the bound of the wait, checked under SpecLive               *)
(***************************************************************************)
\* C18: a pending wait has its timeout timer armed; it ends either on a
\* match or by the timeout and its error, and by the timeout whenever no
\* element matches; and
\* with the timer firing no wait stays pending.
C18_WaitBounded ==
    /\ [](pc = "waiting" => timer = "domReady")
    /\ [][ (pc = "waiting" /\ pc' # "waiting")
              => \/ doc'.input = "present" /\ log' = log \o <<"input_ready">>
                 \/ log'[Len(log) + 1] = "timeout" ]_vars
    /\ (pc = "waiting") ~> (pc # "waiting")

\* C18 witness: a wait has ended by its timeout with the input still absent
\* while the send button was there
C18_Witness ==
    /\ pc = "done"
    /\ RunLog = <<"subscribed", "timeout", "cleanup">>
    /\ doc.input = "absent"
    /\ doc.button = "enabled"

(***************************************************************************)
(* Claims about the Session Guard, checked under SpecCall                  *)
(***************************************************************************)
\* does the URL contain a configured login-page pattern
OnLoginPage(h) == \E pattern \in LOGIN_PAGE_PATTERNS : Includes(h, pattern)

\* C21: whenever the URL contains a configured login-page pattern,
\* isUserLoggedOut returns true, whatever the document contains.
C21_LoginUrlWins ==
    (call.fn = "isUserLoggedOut" /\ call.returned /\ OnLoginPage(call.args[1]))
        => call.result[1] = TRUE

\* C21 witness: the guard has returned true on the application's URL with a
\* login URL in its query, the document holding the input element
C21_Witness ==
    /\ call.fn = "isUserLoggedOut" /\ call.returned
    /\ call.result[1] = TRUE
    /\ Includes(call.args[1], GEMINI_BASE_URL)
    /\ call.args[2].input = "present"

Lookups(l) == SelectSeq(l, LAMBDA e : e \in {"lookup:absent", "lookup:disabled", "lookup:enabled"})

\* C23: in one clickSendButton call the number of look-ups never exceeds
\* MAX_ATTEMPTS; it is exactly MAX_ATTEMPTS when the call has returned and
\* every look-up found the button absent or disabled; and the retry delay
\* is pending only after an attempt that is not the last one.  The same
\* holds for the call of a message-driven injection.
C23_RetryBound ==
    /\ attempt <= MAX_ATTEMPTS
    /\ Len(Lookups(RunLog)) <= MAX_ATTEMPTS
    /\ attempt > 0 => Len(Lookups(RunLog)) = attempt
    /\ (pc = "done" /\ Lookups(RunLog) # <<>> /\ ~Has(RunLog, "lookup:enabled"))
          => Len(Lookups(RunLog)) = MAX_ATTEMPTS
    /\ (pc = "retry" \/ timer = "retryDelay")
          => (pc = "retry" /\ timer = "retryDelay" /\ attempt \in 1..(MAX_ATTEMPTS - 1))
    /\ \A i \in DOMAIN msgs :
          /\ msgs[i].attempt <= MAX_ATTEMPTS
          /\ (msgs[i].pc = "done" /\ msgs[i].attempt > 0 /\ ~msgs[i].clicked)
                => msgs[i].attempt = MAX_ATTEMPTS
          /\ (msgs[i].pc = "retry" \/ msgs[i].timer = "retryDelay")
                => (msgs[i].pc = "retry" /\ msgs[i].timer = "retryDelay"
                    /\ msgs[i].attempt \in 1..(MAX_ATTEMPTS - 1))

\* C23 witness: a call has returned after MAX_ATTEMPTS look-ups that found
\* the button absent at one attempt and disabled at another
C23_Witness ==
    /\ pc = "done"
    /\ Has(RunLog, "submit_failed")
    /\ Has(RunLog, "lookup:absent")
    /\ Has(RunLog, "lookup:disabled")
    /\ Len(Lookups(RunLog)) = MAX_ATTEMPTS

\* the entries a step added to the log
Added == SubSeq(log', Len(log) + 1, Len(log'))

\* C24: a click is dispatched only by an attempt that finds the button
\* present with neither the disabled property nor aria-disabled, at most
\* once in a call; and the first attempt that finds such a button clicks it,
\* does not report failure and ends the call.  The same holds for the call
\* of a message-driven injection.
C24_ClickOnlyEnabledOnce ==
    [][ /\ (Len(log') > Len(log) /\ Has(Added, "click"))
             => /\ doc.button = "enabled"
                /\ attempt' = attempt + 1
                /\ ~Has(RunLog, "click")
                /\ Count(Added, "click") = 1
        /\ (attempt' = attempt + 1 /\ doc.button = "enabled")
             => /\ Has(Added, "click")
                /\ ~Has(Added, "submit_failed")
                /\ pc' = "done"
        /\ \A i \in DOMAIN msgs :
             /\ (msgs'[i].clicked /\ ~msgs[i].clicked)
                  => /\ doc.button = "enabled"
                     /\ msgs'[i].attempt = msgs[i].attempt + 1
             /\ (msgs'[i].attempt = msgs[i].attempt + 1 /\ doc.button = "enabled")
                  => /\ msgs'[i].clicked /\ ~msgs[i].clicked
                     /\ msgs'[i].pc = "done"
                     /\ msgs'[i].error = "none"
             /\ msgs[i].clicked => msgs'[i] = msgs[i]
      ]_vars

\* C24 witness: a call has clicked at its second attempt, after a first
\* attempt that found the button disabled through aria-disabled or the
\* disabled property
C24_Witness ==
    /\ pc = "done"
    /\ attempt = 2
    /\ Lookups(RunLog) = <<"lookup:disabled", "lookup:enabled">>
    /\ Count(RunLog, "click") = 1

\* C25: when clickSendButton has used up its attempts, the failure it
\* reports is "never found" exactly when the button was absent at every
\* attempt, and "found but stayed disabled" exactly when some attempt found
\* it.
C25_FailureKindsDistinguished ==
    (pc = "done" /\ Has(RunLog, "submit_failed"))
        => /\ Has(RunLog, "error:not_found") <=> ~Has(RunLog, "lookup:disabled")
           /\ Has(RunLog, "error:stayed_disabled") <=> Has(RunLog, "lookup:disabled")

(***************************************************************************)
(* Claims about the Text Injector, checked under SpecCall                  *)
(***************************************************************************)
\* the types of the calls in events, in order
Types(events) == [k \in 1..Len(events) |-> events[k].type]

\* did execCommand return, and return FALSE
PrimaryFailed(events) ==
    \E k \in 1..Len(events) : events[k].type = "execCommand" /\ ~events[k].returned

\* was the fallback entered
FallbackRan(events) ==
    \E k \in 1..Len(events) : events[k].type \in {"clear", "beforeinput", "set", "input"}

IsPrefix(s, t) == Len(s) <= Len(t) /\ s = SubSeq(t, 1, Len(s))

\* C27: the primary path focuses the element, then selects its whole
\* content, then issues execCommand('insertText') with the text; the
\* fallback clears the content, then dispatches 'beforeinput' carrying the
\* text, then sets the content to the text, then dispatches 'input'
\* carrying the text: the calls made are these, in this order, complete when
\* nothing throws and cut short by a throw otherwise.
C27_EventOrder ==
    LET primary(text, success) ==
            <<Ev("focus", <<>>, TRUE), Ev("selectAll", <<>>, TRUE), Ev("execCommand", text, success)>>
        fallback(text) ==
            <<Ev("clear", <<>>, TRUE), Ev("beforeinput", text, TRUE),
              Ev("set", text, TRUE), Ev("input", text, TRUE)>>
    IN  /\ (call.fn = "injectText" /\ call.returned)
            => LET ev == call.result[1].events
                   text == call.args[2]
               IN  /\ \/ IsPrefix(ev, primary(text, TRUE))
                      \/ IsPrefix(ev, primary(text, FALSE) \o fallback(text))
                   /\ call.args[3] = "primary" => ev = primary(text, TRUE)
                   /\ call.args[3] = "fallback" => ev = primary(text, FALSE) \o fallback(text)
        /\ (call.fn = "injectTextWithInputEvent" /\ call.returned)
            => LET ev == call.result[1].events
                   text == call.args[1]
               IN  /\ IsPrefix(ev, fallback(text))
                   /\ call.args[2] = "fallback" => ev = fallback(text)

\* C27 witness: a call of injectText has gone through both paths
C27_Witness ==
    /\ call.fn = "injectText" /\ call.returned
    /\ call.args[3] = "fallback"
    /\ Types(call.result[1].events) =
         <<"focus", "selectAll", "execCommand", "clear", "beforeinput", "set", "input">>

(***************************************************************************)
(* Claims about the order of the steps of a run                            *)
(***************************************************************************)
\* C28: in every run a step starts only when the asynchronous operation of
\* the step before has settled: the BEFORE_INJECTION delay starts only when
\* the wait for the input has resolved (the element is in the document and
\* the observer disconnected); injectText runs only when that delay has
\* elapsed; the first look-up of the send button happens only after a
\* successful injection, when the AFTER_INJECTION delay has elapsed.  The
\* same holds for every message-driven run.
C28_StepOrder ==
    [][ /\ (pc' = "settle" /\ pc # "settle")
             => /\ pc \in {"loginDelay", "waiting"}
                /\ doc'.input = "present"
                /\ ~observer' /\ timer' = "beforeInjection"
        /\ (Has(Added, "injected") \/ Has(Added, "inject_failed"))
             => /\ pc = "settle" /\ timer = "beforeInjection"
                /\ RunLog[Len(RunLog)] = "input_ready"
        /\ (pc' = "afterInjection" /\ pc # "afterInjection")
             => /\ pc = "settle"
                /\ Added = <<"injected">>
                /\ doc'.text = prompt.str
        /\ (attempt = 0 /\ attempt' = 1)
             => /\ pc = "afterInjection" /\ timer = "afterInjection"
                /\ RunLog[Len(RunLog)] = "injected"
        /\ (Lookups(Added) # <<>>) => attempt' = attempt + 1
        /\ \A i \in DOMAIN msgs :
             /\ (msgs'[i].pc = "settle" /\ msgs[i].pc # "settle")
                  => /\ msgs[i].pc = "waiting"
                     /\ doc'.input = "present"
                     /\ ~msgs'[i].observer /\ msgs'[i].timer = "beforeInjection"
             /\ (msgs'[i].pc = "afterInjection" /\ msgs[i].pc # "afterInjection")
                  => /\ msgs[i].pc = "settle" /\ msgs[i].timer = "beforeInjection"
                     /\ doc'.text = msgs[i].message.prompt.str
             /\ (msgs[i].attempt = 0 /\ msgs'[i].attempt = 1)
                  => (msgs[i].pc = "afterInjection" /\ msgs[i].timer = "afterInjection")
      ]_vars

\* C28 witness: a run that waited for the input has gone through injection
\* and the attempts to submit, and so has a message-driven run
C28_Witness ==
    /\ pc = "done"
    /\ Has(RunLog, "subscribed") /\ Has(RunLog, "input_ready")
    /\ Has(RunLog, "injected") /\ Lookups(RunLog) # <<>>
    /\ \E i \in DOMAIN msgs : msgs[i].pc = "done" /\ msgs[i].attempt > 0

(***************************************************************************)
(* Claim about termination, checked under SpecMsgLive                      *)
(***************************************************************************)
\* C29: whatever the page does, the URL-driven run reaches its end and
\* stays there, every message-driven run reaches its end, and a run takes
\* no more steps than the start, the session check, the wait, the
\* injection and MAX_ATTEMPTS attempts to submit.
C29_RunsTerminate ==
    /\ <>[](pc = "done")
    /\ \A i \in 1..MaxMsgs : [](Len(msgs) >= i => <>(Len(msgs) >= i /\ Finished(msgs[i])))
    /\ [](Len(log) <= MAX_ATTEMPTS + 6)
    /\ [](\A i \in DOMAIN msgs : msgs[i].attempt <= MAX_ATTEMPTS)

\* C29 witness: a run has ended with the send button never enabled, and a
\* message-driven run has ended with the send button never enabled
C29_Witness ==
    /\ pc = "done"
    /\ Has(RunLog, "submit_failed")
    /\ \E i \in DOMAIN msgs :
          /\ IsInjectPrompt(msgs[i].message)
          /\ Finished(msgs[i])
          /\ msgs[i].attempt = MAX_ATTEMPTS /\ ~msgs[i].clicked

(***************************************************************************)
(* Claim about the Locator Resolver, checked under SpecCall                *)
(***************************************************************************)
\* the positions in the list of the selectors that match an element of d
Matching(selectors, d) ==
    { k \in 1..Len(selectors) : \E e \in 1..Len(d.elems) : selectors[k] \in d.elems[e] }

\* C30: a call of queryWithSelectors returns null exactly when there is no
\* document or no selector of the list matches an element; otherwise it
\* returns the first element in document order that matches the earliest
\* selector, in list order, that matches anything; and the call leaves the
\* document as it was.
C30_FirstSelectorWins ==
    [][ (call.fn = "queryWithSelectors" /\ ~call.returned /\ call'.returned)
          => LET selectors == call.args[1]
                 r == call'.result[1]
                 m == Matching(selectors, doc)
             IN  /\ doc' = doc
                 /\ call'.args = call.args
                 /\ (r = 0) <=> (doc.isNull \/ m = {})
                 /\ r # 0 =>
                      LET k == CHOOSE j \in m : \A i \in m : j <= i
                      IN  /\ r \in 1..Len(doc.elems)
                          /\ selectors[k] \in doc.elems[r]
                          /\ \A f \in 1..(r - 1) : selectors[k] \notin doc.elems[f]
      ]_vars

\* C30 witness: the call has returned the second element of the document,
\* matched by the first selector of the list, although the first element
\* matches the second selector
C30_Witness ==
    /\ call.fn = "queryWithSelectors" /\ call.returned
    /\ Len(call.args[1]) = 2 /\ Len(doc.elems) = 2
    /\ call.result[1] = 2
    /\ call.args[1][1] \in doc.elems[2]
    /\ call.args[1][2] \in doc.elems[1]

(***************************************************************************)
(* Claims about the feature loader                                         *)
(***************************************************************************)
\* C31: whatever functions of the loader are called, in whatever order, a
\* feature module's init is invoked only while the feature is not marked
\* initialized and its destroy only while it is; a feature is marked
\* exactly when the last call of its module that returned is init; so an
\* init that returns follows no call or a destroy that returned, and a
\* destroy that returns follows an init that returned.
C31_InitDestroyAlternate ==
    [][ /\ \A k \in 1..Len(loader'.step) :
              LET c == loader'.step[k]
              IN  /\ c.op = "init" => ~loader.initialized[c.feature]
                  /\ c.op = "destroy" => loader.initialized[c.feature]
                  /\ (c.op = "init" /\ c.ok)
                        => /\ loader.last[c.feature] \in {"none", "destroy"}
                           /\ loader'.last[c.feature] = "init"
                  /\ (c.op = "destroy" /\ c.ok)
                        => /\ loader.last[c.feature] = "init"
                           /\ loader'.last[c.feature] = "destroy"
                  /\ \A j \in 1..Len(loader'.step) : loader'.step[j].feature = c.feature => j = k
        /\ \A f \in Features :
              /\ loader'.initialized[f] <=> loader'.last[f] = "init"
              /\ loader'.last[f] # loader.last[f]
                    => \E k \in 1..Len(loader'.step) :
                          loader'.step[k].feature = f /\ loader'.step[k].ok
      ]_vars

\* C31 witness: a destroy of keyboard shortcuts has returned, after its
\* init, while wider chat stays initialized
C31_Witness ==
    /\ loader.pc = "exported"
    /\ call.fn = "destroy"
    /\ loader.step = <<ModuleCall("keyboardShortcuts", "destroy", TRUE)>>
    /\ loader.last["keyboardShortcuts"] = "destroy"
    /\ loader.initialized["widerChatWidth"]

\* did the call of f's module, if the handler that ran last made one, return
NoThrow(L, f) == \A k \in 1..Len(L.step) : L.step[k].feature = f => L.step[k].ok

\* C32: after handleSettingsChange has run on a change of STORAGE_KEY in
\* the 'sync' area, each destroyable feature whose module has init and
\* destroy, neither throwing, is marked initialized exactly when its new
\* setting is not false, a missing newValue standing for the defaults; on
\* a change of another area or without the key no mark changes and no
\* module is called.
C32_ChangeApplied ==
    [][ (call'.fn = "handleSettingsChange")
          => LET c == call'.args[1]
             IN  IF c.areaName = "sync" /\ c.hasKey
                 THEN \A f \in Destroyable :
                        (loader.avail[f] \in {"full", "throws"} /\ NoThrow(loader', f))
                          => (loader'.initialized[f] <=> IsOn(OrDefaults(c.newValue), f))
                 ELSE /\ loader'.initialized = loader.initialized
                      /\ loader'.last = loader.last
                      /\ loader'.step = <<>>
      ]_vars

\* C32 witness: a change that sets keyboard shortcuts to false and leaves
\* wider chat out of the object has destroyed the one and initialized the
\* other
C32_Witness ==
    /\ call.fn = "handleSettingsChange"
    /\ call.args[1].areaName = "sync" /\ call.args[1].hasKey
    /\ call.args[1].newValue["keyboardShortcuts"] = "false"
    /\ \E k \in 1..Len(loader.step) :
          loader.step[k] = ModuleCall("keyboardShortcuts", "destroy", TRUE)
    /\ ~loader.initialized["keyboardShortcuts"]
    /\ loader.initialized["widerChatWidth"]

\* C39: once initializeFeatures has completed and every change event has
\* been handled, each destroyable feature whose module has init and
\* destroy that do not throw is marked initialized exactly when the value
\* now stored has its setting not false.
C39_ConvergesToStored ==
    (loader.pc = "ready" /\ loader.events = <<>>)
        => \A f \in Destroyable :
              loader.avail[f] = "full"
                => (loader.initialized[f] <=> IsOn(OrDefaults(loader.stored), f))

(***************************************************************************)
(* Claim about the omnibox handler, checked under SpecCall                 *)
(***************************************************************************)
\* C33: a call of handleInputEntered with a text that is not white space
\* only navigates to the URL that carries the trimmed text as prompt; when
\* that navigation fails it attempts one navigation more, to the Gemini
\* home page without the prompt parameter, and none when it succeeds; and
\* it does not throw, whether or not the fallback fails.  With an empty or
\* white-space-only text it attempts one navigation, to the home page
\* without the prompt parameter.
C33_OneFallback ==
    (call.fn = "handleInputEntered" /\ call.returned)
        => LET text == call.args[1]
               r == call.result[1]
               n == r.navigations
               blank == \A i \in 1..Len(text) : text[i] \in WhiteSpace
               toHome(x) == /\ x.url = GEMINI_BASE_URL
                            /\ ~HasPromptParam(x.url)
                            /\ \A k \in 1..Len(x.calls) :
                                  x.calls[k].api # "query" => x.calls[k].url = GEMINI_BASE_URL
           IN  IF blank
               THEN Len(n) = 1 /\ toHome(n[1])
               ELSE /\ ~r.threw
                    /\ HasPromptParam(n[1].url)
                    /\ getPromptFromURL(LocationSearch(Navigate(n[1].url))).str = trim(text)
                    /\ IF n[1].threw THEN Len(n) = 2 /\ toHome(n[2]) ELSE Len(n) = 1

\* C33 witness: the navigation with the prompt failed, the
\* fallback failed too, and the handler returned
C33_Witness ==
    /\ call.fn = "handleInputEntered" /\ call.returned
    /\ call.args[1] = <<32, 72, 105, 32>>
    /\ Len(call.result[1].navigations) = 2
    /\ call.result[1].navigations[1].threw
    /\ call.result[1].navigations[2].threw
    /\ call.result[1].navigations[2].url = GEMINI_BASE_URL
    /\ ~call.result[1].threw

(***************************************************************************)
(* Claims about the points where a run is suspended                        *)
(***************************************************************************)
\* a step in which the page or another handler has run: the page changed
\* the input element or the send button, or the listener was called
OutsideStep ==
    \/ doc'.input # doc.input
    \/ doc'.button # doc.button
    \/ Len(msgs') > Len(msgs)

\* C34 as stated: while a URL-driven run is under way the page or another
\* handler runs only at the wait for the input, at the settle delay before
\* injection, at the settle delay before submission or at the delay
\* between two attempts to submit; not between the extraction of the
\* prompt and the session check.
C34_SuspensionPointsAsStated ==
    [][ (OutsideStep /\ pc \notin {"off", "start", "done"})
          => \/ pc = "waiting" /\ timer = "domReady" /\ observer
             \/ pc = "settle" /\ timer = "beforeInjection"
             \/ pc = "afterInjection" /\ timer = "afterInjection"
             \/ pc = "retry" /\ timer = "retryDelay" /\ attempt < MAX_ATTEMPTS
      ]_vars

\* C34 amended: the suspension points of a URL-driven run are exactly the
\* delay of 500 ms between the extraction of the prompt and the session
\* check, the wait for the input, the settle delay before injection, the
\* settle delay before submission and the delay between two attempts to
\* submit; the page or another handler runs at these points only.
C34_SuspensionPoints ==
    [][ (OutsideStep /\ pc \notin {"off", "start", "done"})
          => \/ pc = "loginDelay" /\ timer = "delay500" /\ log = <<>>
             \/ pc = "waiting" /\ timer = "domReady" /\ observer
             \/ pc = "settle" /\ timer = "beforeInjection"
             \/ pc = "afterInjection" /\ timer = "afterInjection"
             \/ pc = "retry" /\ timer = "retryDelay" /\ attempt < MAX_ATTEMPTS
      ]_vars

\* C34 witness: a message has been received while the run was in the delay
\* before its session check
C34_Witness ==
    /\ pc = "loginDelay" /\ timer = "delay500"
    /\ ~prompt.isNull
    /\ Len(msgs) = 1

(***************************************************************************)
(* Claim about runs side by side                                           *)
(***************************************************************************)
\* C35: when a run dispatches its submit click the content of the input
\* element is the text that run injected, and between a run's injection
\* and the end of that run no other run writes the content: for the
\* URL-driven run and for every message-driven run.
C35_NoInterference ==
    [][ /\ Has(Added, "click") => doc.text = prompt.str
        /\ (pc \in {"afterInjection", "retry"} /\ pc' \in {"afterInjection", "retry"})
              => doc'.text = doc.text
        /\ \A i \in DOMAIN msgs :
              (msgs'[i].clicked /\ ~msgs[i].clicked)
                => doc.text = msgs[i].message.prompt.str
      ]_vars

(***************************************************************************)
(* Claim about the kinds of change the wait reacts to                      *)
(***************************************************************************)
\* C36: a wait does not reject while an element that matches the locator
\* list is in the document: once the document has come to match, by the
\* insertion of a node or by a change of an attribute of a node that was
\* there, the wait of the URL-driven run and that of a message-driven run
\* end by resolving, never by the timeout.
C36_ResolvesOnMatch ==
    [][ /\ (pc = "waiting" /\ doc.input = "present") => ~Has(Added, "timeout")
        /\ \A i \in DOMAIN msgs :
              (msgs[i].pc = "waiting" /\ doc.input = "present")
                => (msgs'[i].pc \in {"waiting", "settle"})
      ]_vars

(***************************************************************************)
(* Claim about a failed injection, checked under SpecCall                  *)
(***************************************************************************)
\* C37: injectText returns a boolean whatever the platform does under it
\* (an exception in the primary or in the fallback path included), and
\* when it returns FALSE the content of the element is what it was before
\* the call.
C37_NoPartialSuccess ==
    (call.fn = "injectText" /\ call.returned)
        => /\ call.result[1].ok \in BOOLEAN
           /\ ~call.result[1].ok => call.result[1].text = call.args[1]

(***************************************************************************)
(* Claims about the reply to an injectPrompt message                       *)
(***************************************************************************)
\* the step in which message i is answered with the reply
ReplyStep(i, reply) ==
    /\ msgs'[i].replies = <<reply>>
    /\ i \in DOMAIN msgs => msgs[i].replies = <<>>

\* message i is past its injection, which returned true
Injected(i) == i \in DOMAIN msgs /\ msgs[i].pc \in {"afterInjection", "retry"}

\* message i waits for the input, or stands before its injection
BeforeInjection(i) == i \in DOMAIN msgs /\ msgs[i].pc \in {"waiting", "settle"}

\* C38 as stated: the reply is success = true exactly when the injection
\* returned true, whatever the submit attempts give, and success = false
\* exactly when the wait for the input timed out or the injection returned
\* false.
C38_ReplyAsStated ==
    [][ \A i \in DOMAIN msgs' :
          /\ ReplyStep(i, "success:true") => Injected(i)
          /\ (Injected(i) /\ msgs'[i].pc = "done") => ReplyStep(i, "success:true")
          /\ ReplyStep(i, "success:false")
                => /\ BeforeInjection(i)
                   /\ msgs[i].pc = "waiting" => msgs[i].timer = "domReady"
          /\ (BeforeInjection(i) /\ msgs'[i].pc = "done") => ReplyStep(i, "success:false")
      ]_vars

\* C38: the reply is success = true exactly when the injection returned
\* true, whatever the submit attempts give (clicked, never found, still
\* disabled), and success = false exactly when the wait for the input was
\* rejected, by its timeout or at once in a document without a body, or the
\* injection returned false.
C38_Reply ==
    [][ \A i \in DOMAIN msgs' :
          /\ ReplyStep(i, "success:true") => Injected(i)
          /\ (Injected(i) /\ msgs'[i].pc = "done") => ReplyStep(i, "success:true")
          /\ ReplyStep(i, "success:false")
                => \/ /\ BeforeInjection(i)
                      /\ msgs[i].pc = "waiting" => msgs[i].timer = "domReady"
                   \/ i \notin DOMAIN msgs /\ ~doc.body
          /\ (BeforeInjection(i) /\ msgs'[i].pc = "done") => ReplyStep(i, "success:false")
          /\ (i \notin DOMAIN msgs /\ IsInjectPrompt(msgs'[i].message) /\ ~doc.body)
                => ReplyStep(i, "success:false")
      ]_vars

\* C38 witness: an injection was answered success = true although the send
\* button was never there and nothing was clicked
C38_Witness ==
    /\ msgs # <<>>
    /\ msgs[1].replies = <<"success:true">>
    /\ ~msgs[1].clicked
    /\ msgs[1].attempt = MAX_ATTEMPTS
    /\ doc.button = "absent"
    /\ doc.text = msgs[1].message.prompt.str

====
